---- MODULE Spec2Model ----
(***************************************************************************)
(* Controlled integerization engine of the Estimates-Program:              *)
(*   integerize_1d / integerize_2d      (src/python/utils.py)               *)
(*   nd_controlling_* ND rounders       (src/python/nd_rounding)            *)
(*                                                                         *)
(* Conventions.  Python vectors are 0-based, the sequences here 1-based:   *)
(* position i of a sequence is index i-1 of the array.  Real numbers are   *)
(* exact rationals: an input entry is a numerator over the denominator     *)
(* Denom, so that rescaling, np.ceil and the "integer-valued" test are     *)
(* computed rather than assumed.                                           *)
(***************************************************************************)
EXTENDS Integers, Sequences, FiniteSets, TLC

VARIABLES
    fn,            \* the function under call
    pc,            \* position of the call: "call", loop labels, "returned", "raised"
    exc,           \* the exception that ended the call ("" when none)
    data,          \* integerize_1d: the input vector (numerators over Denom)
    control,       \* integerize_1d: <<>> for None, <<c>> for a given control
    methodology,   \* integerize_1d: tie-break policy
    generator,     \* integerize_1d: TRUE when a np.random.Generator is supplied
    result,        \* value returned by the call (<<>> before it returns)
    again,         \* value returned when the call is repeated on its own result
    row_ctrls,     \* integerize_2d: row controls
    col_ctrls,     \* integerize_2d: column controls
    condition,     \* integerize_2d: "exact" or "less than"
    nearest_neighbors,     \* integerize_2d: the (sorted) list of neighborhoods
    array_2d,      \* integerize_2d: the working copy of the matrix
    deviations,    \* integerize_2d: row sums minus row controls, as of the last recalculation
    adjustments,   \* integerize_2d: per column, decrements not yet given back
    relax_skip_condition,  \* integerize_2d: "None", "Nearest Neighbors", "Allow all Columns"
    neighborhood,  \* integerize_2d: current neighborhood (0 while unset)
    nd_data,       \* ND rounders: the input array [shape, at], numerators over Denom
    marginals,     \* ND rounders: one control vector per axis
    frac,          \* ND rounders: fraction of the error corrected per step, <<num, den>>
    threshold,     \* hybrid rounders: error at which the exact solver takes over
    rounded_data,  \* ND rounders: the working integer array
    step,          \* nd_controlling_mixed_safe: number of completed stochastic steps
    back_step,     \* nd_controlling_mixed_safe: checkpoint the unwinding loop is at
    checkpoints,   \* nd_controlling_mixed_safe: the saved step_NN.npy arrays, in order
    given,         \* the caller's argument objects as they were when the call began
    data_type,     \* integerize_1d: type(data), "ndarray" or "list"
    seed,          \* stochastic functions: the seed, or the state the generator is passed in
    gen_state,     \* stochastic functions: the state of the np.random.Generator `gen`
    status,        \* exact rounders: pulp.LpStatus[problem.status] of the last solve ("" before)
    solver_rank,   \* exact rounders: which of the feasible assignments the solver returns
    solver_calls,  \* hybrid rounders: the arrays nd_controlling_pulp_solver was invoked on
    ipf_seed,      \* ipf_numpy: the array `seed`, entries <<numerator, denominator>>
    iteration,     \* ipf_numpy: passes of "for _ in range(max_iters)" begun
    dim,           \* ipf_numpy: the axis the next scaling step works on
    max_adjustment_factor,  \* ipf_numpy: per axis, max |adjustment_factor - 1| of this pass
    current_sum,   \* ipf_numpy: the slice sums of the last scaling step
    adjustment_factor,  \* ipf_numpy: the ratios of the last scaling step
    value_hs,      \* _create_hs_hh: housing stock of each record of the city
    value_hh,      \* _create_hs_hh, _create_hhp_outputs: households of each record
    value_hhp,     \* _create_hhp_outputs: household population of each record
    adjustment     \* reallocation loops: the total adjustment not yet reallocated

vars1d == <<data, control, methodology, generator, result, again>>
vars2d == <<row_ctrls, col_ctrls, condition, nearest_neighbors, array_2d,
            deviations, adjustments, relax_skip_condition, neighborhood>>
varsnd == <<nd_data, marginals, frac, threshold, rounded_data, step, back_step,
            checkpoints>>
varsx == <<given, data_type, seed, gen_state, status, solver_calls>>
varsipf == <<ipf_seed, iteration, dim, max_adjustment_factor, current_sum,
             adjustment_factor>>
varscity == <<value_hs, value_hh, value_hhp, adjustment>>
vars == <<fn, pc, exc, vars1d, vars2d, varsnd, varsx, varsipf, solver_rank, varscity>>

(***************************************************************************)
(* Bounds of the model                                                     *)
(***************************************************************************)
Denom == 2        \* input entries are multiples of 1/Denom
MaxLen == 3       \* longest 1-d input vector
MaxVal == 4       \* largest numerator of a 1-d input entry
MaxCtrlNum == 6   \* largest numerator (over Denom) of an explicit 1-d control
MaxCells2D == 4   \* largest number of cells of a 2-d input matrix
MaxMass2D == 2    \* largest sum of the numerators of a 2-d input matrix
MaxCtrlSum2D == 3 \* largest sum of the row controls, and of the column controls
n_dims == 2       \* number of axes of an ND input array
MaxCellsND == 4   \* largest number of cells of an ND input array
MaxMassND == 12   \* largest (number of cells) x (sum of the numerators) of an ND input
MaxMargSumND == 2 \* largest sum of one axis's marginal controls
MaxThreshold == 2 \* largest threshold handed to the hybrid rounder

(***************************************************************************)
(* Arithmetic helpers                                                      *)
(***************************************************************************)
RECURSIVE SeqSum(_)
SeqSum(s) == IF s = <<>> THEN 0 ELSE s[1] + SeqSum(Tail(s))

RECURSIVE SetSum(_, _)
SetSum(f, S) == IF S = {} THEN 0
                ELSE LET x == CHOOSE y \in S : TRUE IN f[x] + SetSum(f, S \ {x})

Abs(x) == IF x < 0 THEN -x ELSE x

\* np.ceil of the non-negative rational num/den (den > 0)
Mut_CeilDiv(num, den) == (num \div den) + 1
CeilDiv(num, den) == (num + den - 1) \div den

Mut_Rank(keys, idx, i) ==
    Cardinality({j \in idx : keys[j] < keys[i] \/ (keys[j] = keys[i] /\ j > i)})

\* np.argsort(keys, stable=True): Rank is the 0-based position of index i in
\* the sorted order (ascending key, equal keys in index order).
Rank(keys, idx, i) ==
    Cardinality({j \in idx : keys[j] < keys[i] \/ (keys[j] = keys[i] /\ j < i)})

\* argsort(...)[-n:] : the n last indices of the stable ascending order; the
\* Python slice [-0:] is the whole array
LastN(keys, idx, n) ==
    IF n = 0 THEN idx ELSE {i \in idx : Rank(keys, idx, i) >= Cardinality(idx) - n}

\* argsort(...)[:n] : the n first indices of the stable ascending order
FirstN(keys, idx, n) == {i \in idx : Rank(keys, idx, i) < n}

Return(v) == [kind |-> "return", exc |-> "", value |-> v]
Raise(e) == [kind |-> "raise", exc |-> e, value |-> <<>>]

(***************************************************************************)
(* integerize_1d (src/python/utils.py)                                     *)
(***************************************************************************)
allowed_methodology == {"largest", "smallest", "largest_difference", "weighted_random"}

Indices(d) == 1..Len(d)

\* rounded_data = np.ceil(data * control / np.sum(data)); c is the integer control
rounded_data_1d(d, c) ==
    LET total == SeqSum(d) IN [i \in Indices(d) |-> CeilDiv(d[i] * c, total)]

\* rounded_data - unrounded_data, as numerators over np.sum(data)
rounding_difference(d, c) ==
    LET r == rounded_data_1d(d, c)
        total == SeqSum(d)
    IN  [i \in Indices(d) |-> r[i] * total - d[i] * c]

\* diff = int(np.sum(rounded_data) - control)
diff_1d(d, c) == SeqSum(rounded_data_1d(d, c)) - c

\* k-element subsets of S
KSubsets(S, k) == {T \in SUBSET S : Cardinality(T) = k}

\* The index sets that `to_decrease` can hold, one per outcome of the policy.
\* weighted_random: generator.choice(size=diff, replace=False, p=...) returns
\* any diff distinct indices of non-zero probability; numpy raises ValueError
\* when fewer than diff entries of p are non-zero (the empty set of choices).
Mut_to_decrease(d, c, meth) ==
    LET r == rounded_data_1d(d, c)
    IN  {FirstN(r, Indices(d), diff_1d(d, c))}
to_decrease(d, c, meth) ==
    LET r == rounded_data_1d(d, c)
        n == diff_1d(d, c)
        rd == rounding_difference(d, c)
    IN  CASE meth = "largest" -> {LastN(r, Indices(d), n)}
          [] meth = "smallest" ->
                {FirstN(r, {i \in Indices(d) : r[i] # 0}, n)}
          [] meth = "largest_difference" -> {LastN(rd, Indices(d), n)}
          [] meth = "weighted_random" ->
                KSubsets({i \in Indices(d) : rd[i] > 0}, n)

\* np.add.at(rounded_data, to_decrease, -1)
Decrease(r, T) == [i \in DOMAIN r |-> IF i \in T THEN r[i] - 1 ELSE r[i]]

\* Lines 286-344: scale, round up, take the overshoot back.
Mut_ScaleAndRound(d, c, meth) ==
    LET r == rounded_data_1d(d, c)
    IN  {LET out == Decrease(r, T)
         IN  IF \E i \in Indices(d) : out[i] < 0
             THEN Raise("ValueError")
             ELSE Return(out) : T \in to_decrease(d, c, meth)}
ScaleAndRound(d, c, meth) ==
    LET r == rounded_data_1d(d, c)
        choices == to_decrease(d, c, meth)
    IN  IF SeqSum(r) - c = 0 THEN {Return(r)}
        ELSE IF choices = {} THEN {Raise("ValueError")}
        ELSE {LET out == Decrease(r, T)
              IN  IF \E i \in Indices(d) : out[i] < 0
                  THEN Raise("ValueError")
                  ELSE Return(out) : T \in choices}

\* Lines 276-284: the two overrides.  np.add.at(data, np.arange(control), 1)
\* indexes past the end of the array when control > len(data): IndexError.
Overrides(d, c, meth) ==
    IF c = 0 THEN {Return([i \in Indices(d) |-> 0])}
    ELSE IF \A i \in Indices(d) : d[i] = 0
         THEN IF c > Len(d) THEN {Raise("IndexError")}
              ELSE {Return([i \in Indices(d) |-> IF i <= c THEN 1 ELSE 0])}
    ELSE ScaleAndRound(d, c, meth)

\* Line 271: math.isclose(a, b) with its default tolerances, rel_tol = 1e-09
\* and abs_tol = 0: abs(a - b) <= rel_tol * max(abs(a), abs(b)).  a and b are
\* numerators over Denom; the difference of two numerators is an integer, so
\* the comparison is the one with the quotient rounded down.
rel_tol_inverse == 1000000000

isclose(a, b) ==
    LET larger == IF Abs(a) > Abs(b) THEN Abs(a) ELSE Abs(b)
    IN  Abs(a - b) <= larger \div rel_tol_inverse

\* Line 271, 274: round(x) of a non-negative x = num / Denom, halves to the
\* even neighbour
round(num) ==
    LET q == num \div Denom
        rem == num % Denom
    IN  IF 2 * rem < Denom THEN q
        ELSE IF 2 * rem > Denom THEN q + 1
        ELSE IF q % 2 = 0 THEN q ELSE q + 1

\* The whole call: the set of its possible outcomes.  d holds numerators over
\* Denom; ctl is <<>> (None) or <<numerator over Denom>>; gen says whether a
\* generator was passed.
integerize_1d(d, ctl, meth, gen) ==
    IF meth \notin allowed_methodology THEN {Raise("ValueError")}
    ELSE IF meth = "weighted_random" /\ ~gen THEN {Raise("ValueError")}
    ELSE IF \E i \in Indices(d) : d[i] < 0 THEN {Raise("ValueError")}
    ELSE IF ctl # <<>> /\ ctl[1] < 0 THEN {Raise("ValueError")}
    ELSE LET cnum == IF ctl = <<>> THEN SeqSum(d) ELSE ctl[1]
         IN  IF ~isclose(cnum, round(cnum) * Denom) THEN {Raise("ValueError")}
             ELSE Overrides(d, round(cnum), meth)

\* The variables of integerize_2d while another function is under call
Idle2D ==
    /\ row_ctrls = <<>> /\ col_ctrls = <<>> /\ condition = "" /\ nearest_neighbors = <<>>
    /\ array_2d = <<>> /\ deviations = <<>> /\ adjustments = <<>>
    /\ relax_skip_condition = "None" /\ neighborhood = 0

\* The variables of the ND rounders while another function is under call
IdleND ==
    /\ nd_data = <<>> /\ marginals = <<>> /\ frac = <<>> /\ threshold = 0
    /\ rounded_data = <<>> /\ step = 0 /\ back_step = 0 /\ checkpoints = <<>>

\* The bookkeeping of the other functions while they are not under call
IdleX ==
    /\ given = <<>> /\ data_type = "" /\ seed = 0 /\ gen_state = 0
    /\ status = "" /\ solver_calls = <<>> /\ solver_rank = 0

\* The variables of the city reallocation loops while another function is under call
IdleCity ==
    /\ value_hs = <<>> /\ value_hh = <<>> /\ value_hhp = <<>> /\ adjustment = 0

\* The variables of ipf_numpy while another function is under call
IdleIPF ==
    /\ ipf_seed = <<>> /\ iteration = 0 /\ dim = 0 /\ max_adjustment_factor = <<>>
    /\ current_sum = <<>> /\ adjustment_factor = <<>>

(***************************************************************************)
(* Calls of integerize_1d                                                  *)
(***************************************************************************)
Vectors(maxlen, vals) == UNION {[1..n -> vals] : n \in 1..maxlen}

Init1D ==
    /\ fn = "integerize_1d"
    /\ pc = "call"
    /\ exc = ""
    /\ data \in Vectors(MaxLen, 0..MaxVal)
    /\ control \in {<<>>} \cup {<<c>> : c \in 0..MaxCtrlNum}
    /\ methodology \in allowed_methodology
    /\ generator = TRUE
    /\ result = <<>>
    /\ again = <<>>
    /\ Idle2D
    /\ IdleND
    /\ IdleIPF
    /\ IdleCity
    /\ given = [data |-> data]
    /\ data_type \in {"ndarray", "list"}
    /\ seed = 0 /\ gen_state = 0
    /\ status = "" /\ solver_calls = <<>> /\ solver_rank = 0

\* Lines 276-284: the call hands back the array `data` itself, changed in
\* place, when the control is zero or every entry is zero
returns_data(d, ctl) ==
    LET cnum == IF ctl = <<>> THEN SeqSum(d) ELSE ctl[1]
    IN  round(cnum) = 0 \/ \A i \in Indices(d) : d[i] = 0

\* integerize_1d(data, control, methodology, generator).  Lines 255-258: a
\* list is converted to a new array, an array is used as it is.
Call1D ==
    /\ fn = "integerize_1d"
    /\ pc = "call"
    /\ \E o \in integerize_1d(data, control, methodology, generator) :
          /\ pc' = IF o.kind = "return" THEN "returned" ELSE "raised"
          /\ exc' = o.exc
          /\ result' = o.value
          /\ data' = IF o.kind = "return" /\ data_type = "ndarray" /\ returns_data(data, control)
                     THEN [i \in DOMAIN o.value |-> o.value[i] * Denom]
                     ELSE data
    /\ UNCHANGED <<varsx, varsipf, varscity, solver_rank, fn, control, methodology, generator, again, vars2d, varsnd>>

\* The returned integers as an input vector (numerators over Denom)
AsInput(v) == [i \in DOMAIN v |-> v[i] * Denom]

\* A caller passes the result back in with the same control:
\* integerize_1d(result, control, methodology, generator)
Recall1D ==
    /\ fn = "integerize_1d"
    /\ pc = "returned"
    /\ \E o \in integerize_1d(AsInput(result), control, methodology, generator) :
          /\ pc' = IF o.kind = "return" THEN "returned_again" ELSE "raised_again"
          /\ exc' = o.exc
          /\ again' = o.value
    /\ UNCHANGED <<varsx, varsipf, varscity, solver_rank, fn, data, control, methodology, generator, result, vars2d, varsnd>>

Next1D == Call1D \/ Recall1D

Spec1D == Init1D /\ [][Next1D]_vars

(***************************************************************************)
(* Properties of integerize_1d                                             *)
(***************************************************************************)
Is1D == fn = "integerize_1d"
Called1D == Is1D /\ pc # "call"
Returned1D == Is1D /\ pc \in {"returned", "returned_again", "raised_again"}
HasPositive(d) == \E i \in Indices(d) : d[i] > 0
AllZero(d) == \A i \in Indices(d) : d[i] = 0
GivenIntegerControl == control # <<>> /\ control[1] % Denom = 0
ControlValue == control[1] \div Denom
IsIntegerVector(d) == \A i \in Indices(d) : d[i] % Denom = 0

\* C1: with non-negative data holding a positive entry and a non-negative
\* integer control, every methodology returns a vector of the length of data,
\* of non-negative integers, whose sum is the control.
C1_SumsToControl ==
    (Called1D /\ HasPositive(given.data) /\ GivenIntegerControl)
        => /\ Returned1D
           /\ Len(result) = Len(given.data)
           /\ \A i \in Indices(result) : result[i] \in Nat
           /\ SeqSum(result) = ControlValue

\* C1 witness: a weighted_random call that had to take back an overshoot of
\* two units has returned.
C1_Witness ==
    /\ Is1D /\ pc = "returned" /\ HasPositive(given.data) /\ GivenIntegerControl
    /\ methodology = "weighted_random"
    /\ diff_1d(given.data, ControlValue) = 2
    /\ SeqSum(result) = ControlValue

\* C8: an entry that is zero in the input is zero in the result, whatever the
\* methodology, when the input has a positive entry.
C8_ZeroStaysZero ==
    (Returned1D /\ HasPositive(given.data))
        => \A i \in Indices(given.data) : given.data[i] = 0 => result[i] = 0

\* C8 witness: a call with a zero entry and an overshoot to take back returned
\* a non-zero vector.
C8_Witness ==
    /\ Is1D /\ pc = "returned" /\ HasPositive(given.data)
    /\ \E i \in Indices(given.data) : given.data[i] = 0
    /\ control # <<>> /\ ControlValue > 0
    /\ diff_1d(given.data, ControlValue) > 0

\* C9: an all-zero input with a positive integer control c returns 1 in the
\* first c positions and 0 elsewhere, a vector that sums to c.
C9_FrontLoaded ==
    (Called1D /\ AllZero(given.data) /\ GivenIntegerControl /\ ControlValue > 0)
        => /\ Returned1D
           /\ result = [i \in Indices(given.data) |-> IF i <= ControlValue THEN 1 ELSE 0]
           /\ SeqSum(result) = ControlValue

\* C10: an integer vector with control None or control equal to its sum is
\* returned unchanged, and a result passed back in with the same control is
\* returned unchanged.
C10_Idempotent ==
    /\ (Called1D /\ IsIntegerVector(given.data)
            /\ (control = <<>> \/ control = <<SeqSum(given.data)>>))
          => (Returned1D /\ AsInput(result) = given.data)
    /\ (Is1D /\ pc \in {"returned_again", "raised_again"})
          => (pc = "returned_again" /\ again = result)

\* C10 witness: a non-zero integer vector with control equal to its sum was
\* integerized, and its result integerized again.
C10_Witness ==
    /\ Is1D /\ pc = "returned_again"
    /\ Len(given.data) >= 2 /\ IsIntegerVector(given.data) /\ HasPositive(given.data)
    /\ control = <<SeqSum(given.data)>>

(***************************************************************************)
(* integerize_2d (src/python/utils.py)                                     *)
(* A matrix is a sequence of rows; row r, column c is array_2d[r][c].      *)
(***************************************************************************)
NRows(A) == Len(A)
NCols(A) == Len(A[1])
Rows(A) == 1..NRows(A)
Cols(A) == 1..NCols(A)
Column(A, c) == [r \in Rows(A) |-> A[r][c]]

\* np.sum(array_2d, axis=1) and np.sum(array_2d, axis=0)
RowSums(A) == [r \in Rows(A) |-> SeqSum(A[r])]
ColSums(A) == [c \in Cols(A) |-> SeqSum(Column(A, c))]

SetMax(S) == CHOOSE x \in S : \A y \in S : y <= x
SetMin(S) == CHOOSE x \in S : \A y \in S : x <= y

\* The elements of a set of integers as an ascending list (np.where(...)[0])
RECURSIVE Ascending(_)
Ascending(S) == IF S = {} THEN <<>> ELSE <<SetMin(S)>> \o Ascending(S \ {SetMin(S)})

Range(q) == {q[i] : i \in DOMAIN q}

Mut_ControlsConsistent(rc, cc, cond) ==
    CASE cond = "exact" -> SeqSum(rc) = SeqSum(cc)
      [] cond = "less than" -> TRUE
      [] OTHER -> FALSE

\* Lines 412-420: the control sums must fit the condition
ControlsConsistent(rc, cc, cond) ==
    CASE cond = "exact" -> SeqSum(rc) = SeqSum(cc)
      [] cond = "less than" -> SeqSum(rc) >= SeqSum(cc)
      [] OTHER -> FALSE

Mut_ColumnOutcome(A, cc, c) ==
    CHOOSE o \in integerize_1d(Column(A, c), <<cc[c] * Denom>>, "largest", FALSE) : TRUE

\* Lines 433-435: every column through integerize_1d with its column control
\* and the default methodology; the first column that raises ends the call.
ColumnOutcome(A, cc, c) ==
    CHOOSE o \in integerize_1d(Column(A, c), <<cc[c] * Denom>>, "largest_difference", FALSE) : TRUE

RoundColumns(A, cc) ==
    LET out == [c \in Cols(A) |-> ColumnOutcome(A, cc, c)]
        failed == {c \in Cols(A) : out[c].kind = "raise"}
    IN  IF failed # {} THEN Raise(out[SetMin(failed)].exc)
        ELSE Return([r \in Rows(A) |-> [c \in Cols(A) |-> out[c].value[r]]])

\* deviations = np.sum(array_2d, axis=1) - row_ctrls
Deviations(A, rc) == [r \in Rows(A) |-> SeqSum(A[r]) - rc[r]]

\* Lines 444-449 and 554-559: the loop condition
any_deviation(dev, cond) ==
    IF cond = "exact" THEN \E r \in DOMAIN dev : Abs(dev[r]) > 0
    ELSE \E r \in DOMAIN dev : dev[r] > 0

Mut_DecrementRowOfAny(st, r) ==
    LET row == st.arr[r]
        min_value == SetMin(Range(row))
        col_idx == SetMin({c \in DOMAIN row : row[c] = min_value})
    IN  [st EXCEPT !.arr[r][col_idx] = @ - 1, !.adj[col_idx] = @ + 1]

Mut_DecrementRow(st, r) ==
    LET row == st.arr[r]
        positive == {row[c] : c \in {k \in DOMAIN row : row[k] > 0}}
        min_value == SetMin(positive)
        col_idx == SetMin({c \in DOMAIN row : row[c] = min_value})
    IN  IF positive = {} THEN [st EXCEPT !.exc = "ValueError"]
        ELSE [st EXCEPT !.arr[r][col_idx] = @ - 1]

\* Lines 458-473: one row with positive deviation gives up one unit.
\* st = [arr, adj, exc]; np.min of an empty selection raises ValueError.
DecrementRow(st, r) ==
    LET row == st.arr[r]
        negative == {c \in DOMAIN row : st.adj[c] < 0}
        cols == IF negative = {} \/ SetMax({row[c] : c \in negative}) = 0
                THEN DOMAIN row ELSE negative
        positive == {row[c] : c \in {k \in cols : row[k] > 0}}
        min_value == SetMin(positive)
        col_idx == SetMin({c \in DOMAIN row : row[c] = min_value})
    IN  IF positive = {} THEN [st EXCEPT !.exc = "ValueError"]
        ELSE [st EXCEPT !.arr[r][col_idx] = @ - 1, !.adj[col_idx] = @ + 1]

\* Lines 457-473: the rows in order, against the deviations of the last
\* recalculation
RECURSIVE DecrementRows(_, _, _)
DecrementRows(st, dev, r) ==
    IF r > Len(dev) \/ st.exc # "" THEN st
    ELSE DecrementRows(IF dev[r] > 0 THEN DecrementRow(st, r) ELSE st, dev, r + 1)

\* Lines 491-500: the loop "for col in cols: ... cols.remove(col)" over the
\* list it mutates: after a removal the list iterator steps over the element
\* that moved into the freed position.  i is the iterator's position (1-based)
\* and hood the neighborhood; the window is the slice [col-hood : col+hood] of
\* the row, clipped to the row.
HasNeighbor(row, col, hood) ==
    \E k \in DOMAIN row :
        /\ k >= col - hood
        /\ k <= col + hood - 1
        /\ row[k] > 0

RemoveAt(q, i) == [j \in 1..(Len(q) - 1) |-> IF j < i THEN q[j] ELSE q[j + 1]]

Mut_sort(q) == q

\* Line 431: list.sort(), ascending, in place
RECURSIVE sort(_)
sort(q) ==
    IF q = <<>> THEN <<>>
    ELSE LET m == SetMin(Range(q))
             i == SetMin({j \in DOMAIN q : q[j] = m})
         IN  <<m>> \o sort(RemoveAt(q, i))

RECURSIVE NeighborFilter(_, _, _, _)
NeighborFilter(cols, i, row, hood) ==
    IF i > Len(cols) THEN cols
    ELSE IF HasNeighbor(row, cols[i], hood) THEN NeighborFilter(cols, i + 1, row, hood)
    ELSE NeighborFilter(RemoveAt(cols, i), i + 1, row, hood)

\* Lines 481-505: the columns a too-low row may be incremented in; {} when
\* the row is skipped
Mut_EligibleColumns(row, adj, relax, hood) == DOMAIN row
EligibleColumns(row, adj, relax, hood) ==
    LET cols == {c \in DOMAIN row : adj[c] > 0}
    IN  CASE relax = "None" ->
                IF SetMax({row[c] : c \in cols}) = 0 THEN {} ELSE cols
          [] relax = "Nearest Neighbors" ->
                Range(NeighborFilter(Ascending(cols), 1, row, hood))
          [] OTHER -> cols

\* Lines 476-515: one row with negative deviation takes one unit back
IncrementRow(st, r, relax, hood) ==
    LET row == st.arr[r]
        cols == EligibleColumns(row, st.adj, relax, hood)
        max_value == SetMax({row[c] : c \in cols})
        col_idx == SetMin({c \in cols : row[c] = max_value})
    IN  IF cols = {} THEN st
        ELSE [st EXCEPT !.arr[r][col_idx] = @ + 1, !.adj[col_idx] = @ - 1]

RECURSIVE IncrementRows(_, _, _, _, _)
IncrementRows(st, dev, r, relax, hood) ==
    IF r > Len(dev) THEN st
    ELSE IncrementRows(
            IF (\E c \in DOMAIN st.adj : st.adj[c] > 0) /\ dev[r] < 0
               THEN IncrementRow(st, r, relax, hood) ELSE st,
            dev, r + 1, relax, hood)

\* Lines 533-541: the next neighborhood of the list, if any is larger
Mut_LargerNeighborhoods(nn, hood) == {i \in DOMAIN nn : nn[i] >= hood}

LargerNeighborhoods(nn, hood) == {i \in DOMAIN nn : nn[i] > hood}

(***************************************************************************)
(* Calls of integerize_2d                                                  *)
(***************************************************************************)
Idle1D ==
    /\ data = <<>> /\ control = <<>> /\ methodology = "" /\ generator = FALSE
    /\ result = <<>> /\ again = <<>>

\* Vectors of length n over Nat whose sum is at most s
BoundedVectors(n, s) == {v \in [1..n -> 0..s] : SeqSum(v) <= s}

\* r-by-c matrices over Nat whose entries sum to at most s
RECURSIVE BoundedMatrices(_, _, _)
BoundedMatrices(r, c, s) ==
    IF r = 0 THEN {<<>>}
    ELSE UNION {{<<v>> \o m : m \in BoundedMatrices(r - 1, c, s - SeqSum(v))} :
                    v \in BoundedVectors(c, s)}

Shapes(cells) == {sh \in (1..cells) \X (1..cells) : sh[1] * sh[2] <= cells}

Init2D ==
    /\ fn = "integerize_2d"
    /\ pc = "call"
    /\ exc = ""
    /\ Idle1D
    /\ IdleND
    /\ IdleX
    /\ IdleIPF
    /\ IdleCity
    /\ \E sh \in Shapes(MaxCells2D) :
          /\ array_2d \in BoundedMatrices(sh[1], sh[2], MaxMass2D)
          /\ row_ctrls \in BoundedVectors(sh[1], MaxCtrlSum2D)
          /\ col_ctrls \in BoundedVectors(sh[2], MaxCtrlSum2D)
    /\ condition \in {"exact", "less than"}
    /\ nearest_neighbors = <<1>>
    /\ deviations = <<>>
    /\ adjustments = <<>>
    /\ relax_skip_condition = "None"
    /\ neighborhood = 0

\* Lines 395-452: validation, column rounding, first deviations
Start2D ==
    /\ fn = "integerize_2d"
    /\ pc = "call"
    /\ IF \/ NRows(array_2d) # Len(row_ctrls)
          \/ NCols(array_2d) # Len(col_ctrls)
          \/ ~ControlsConsistent(row_ctrls, col_ctrls, condition)
          \/ nearest_neighbors = <<>>
       THEN /\ pc' = "raised"
            /\ exc' = "ValueError"
            /\ UNCHANGED <<array_2d, deviations, adjustments, nearest_neighbors>>
       ELSE LET o == RoundColumns(array_2d, col_ctrls)
                dev == Deviations(o.value, row_ctrls)
            IN  /\ nearest_neighbors' = sort(nearest_neighbors)
                /\ IF o.kind = "raise"
                   THEN /\ pc' = "raised"
                        /\ exc' = o.exc
                        /\ UNCHANGED <<array_2d, deviations, adjustments>>
                   ELSE /\ array_2d' = o.value
                        /\ deviations' = dev
                        /\ adjustments' = [c \in Cols(array_2d) |-> 0]
                        /\ pc' = IF any_deviation(dev, condition)
                                 THEN "decrement" ELSE "returned"
                        /\ exc' = ""
    /\ UNCHANGED <<varsx, varsipf, varscity, solver_rank, fn, vars1d, varsnd, row_ctrls, col_ctrls, condition,
                   relax_skip_condition, neighborhood>>

\* Lines 456-473: the rows with positive deviation
Decrement2D ==
    /\ fn = "integerize_2d"
    /\ pc = "decrement"
    /\ LET st == DecrementRows([arr |-> array_2d, adj |-> adjustments, exc |-> ""],
                               deviations, 1)
       IN  IF st.exc # ""
           THEN /\ pc' = "raised"
                /\ exc' = st.exc
                /\ UNCHANGED <<array_2d, adjustments>>
           ELSE /\ pc' = "increment"
                /\ array_2d' = st.arr
                /\ adjustments' = st.adj
                /\ exc' = ""
    /\ UNCHANGED <<varsx, varsipf, varscity, solver_rank, fn, vars1d, varsnd, row_ctrls, col_ctrls, condition, nearest_neighbors,
                   deviations, relax_skip_condition, neighborhood>>

\* Lines 475-515: the rows with negative deviation
Increment2D ==
    /\ fn = "integerize_2d"
    /\ pc = "increment"
    /\ LET st == IncrementRows([arr |-> array_2d, adj |-> adjustments, exc |-> ""],
                               deviations, 1, relax_skip_condition, neighborhood)
       IN  /\ array_2d' = st.arr
           /\ adjustments' = st.adj
    /\ pc' = "recalculate"
    /\ UNCHANGED <<varsx, varsipf, varscity, solver_rank, fn, exc, vars1d, varsnd, row_ctrls, col_ctrls, condition, nearest_neighbors,
                   deviations, relax_skip_condition, neighborhood>>

\* Lines 517-559: relax the skip condition after a pass without progress,
\* recalculate the deviations and the loop condition
Recalculate2D ==
    /\ fn = "integerize_2d"
    /\ pc = "recalculate"
    /\ LET new == Deviations(array_2d, row_ctrls)
           larger == LargerNeighborhoods(nearest_neighbors, neighborhood)
       IN  IF deviations = new /\ relax_skip_condition = "Allow all Columns"
           THEN /\ pc' = "raised"
                /\ exc' = "ValueError"
                /\ UNCHANGED <<deviations, relax_skip_condition, neighborhood>>
           ELSE /\ IF deviations # new
                   THEN UNCHANGED <<relax_skip_condition, neighborhood>>
                   ELSE IF relax_skip_condition = "None"
                   THEN /\ relax_skip_condition' = "Nearest Neighbors"
                        /\ neighborhood' = nearest_neighbors[1]
                   ELSE IF larger # {}
                   THEN /\ relax_skip_condition' = "Nearest Neighbors"
                        /\ neighborhood' = nearest_neighbors[SetMin(larger)]
                   ELSE /\ relax_skip_condition' = "Allow all Columns"
                        /\ UNCHANGED neighborhood
                /\ deviations' = new
                /\ pc' = IF any_deviation(new, condition) THEN "decrement" ELSE "returned"
                /\ exc' = ""
    /\ UNCHANGED <<varsx, varsipf, varscity, solver_rank, fn, vars1d, varsnd, row_ctrls, col_ctrls, condition, nearest_neighbors,
                   array_2d, adjustments>>

Next2D == Start2D \/ Decrement2D \/ Increment2D \/ Recalculate2D

Spec2D == Init2D /\ [][Next2D]_vars

(***************************************************************************)
(* Properties of integerize_2d                                             *)
(***************************************************************************)
Is2D == fn = "integerize_2d"
Returned2D == Is2D /\ pc = "returned"
NonNegativeIntegers(A) == \A r \in Rows(A) : \A c \in Cols(A) : A[r][c] \in Nat

\* C2: in exact mode a returned matrix has every row sum equal to its row
\* control, every column sum equal to its column control, and only
\* non-negative integer entries.
C2_ExactMatchesControls ==
    (Returned2D /\ condition = "exact")
        => /\ RowSums(array_2d) = row_ctrls
           /\ ColSums(array_2d) = col_ctrls
           /\ NonNegativeIntegers(array_2d)

\* C2 witness: an exact call returned after its correction loop had relaxed
\* the skip condition down to "Allow all Columns".
C2_Witness ==
    /\ Returned2D /\ condition = "exact"
    /\ relax_skip_condition = "Allow all Columns"

\* C3: in less-than mode a returned matrix has every row sum at most its row
\* control and every column sum equal to its column control.
C3_LessThanKeepsColumns ==
    (Returned2D /\ condition = "less than")
        => /\ \A r \in Rows(array_2d) : RowSums(array_2d)[r] <= row_ctrls[r]
           /\ ColSums(array_2d) = col_ctrls

(***************************************************************************)
(* N-dimensional arrays (src/python/nd_rounding/nd-rounding.py)            *)
(* An array is [shape |-> <<n_1, ..., n_k>>, at |-> [cell -> value]]; a     *)
(* cell is the tuple of its 1-based indices, one per axis.                 *)
(***************************************************************************)
Dims(sh) == 1..Len(sh)
Cells(sh) == {c \in [Dims(sh) -> 1..SetMax(Range(sh))] : \A d \in Dims(sh) : c[d] <= sh[d]}

\* The cells of the slice: index i along axis d
Slice(sh, d, i) == {c \in Cells(sh) : c[d] = i}

\* Position of a cell in the C-order flattening (last axis fastest)
RECURSIVE FlatIndex(_, _, _)
FlatIndex(c, sh, d) ==
    IF d > Len(sh) THEN 0
    ELSE LET rest == FlatIndex(c, sh, d + 1)
             RECURSIVE Stride(_)
             Stride(e) == IF e > Len(sh) THEN 1 ELSE sh[e] * Stride(e + 1)
         IN  (c[d] - 1) * Stride(d + 1) + rest

\* np.ceil(data), data given as numerators over den
Ceil(A, den) == [shape |-> A.shape, at |-> [c \in Cells(A.shape) |-> CeilDiv(A.at[c], den)]]

\* actual.sum(axis=missing_dim) for axis d
AxisSums(A, d) == [i \in 1..A.shape[d] |-> SetSum(A.at, Slice(A.shape, d, i))]

\* compute_rounding_error(actual, control)
compute_rounding_error(A, ctl) ==
    [d \in Dims(A.shape) |->
        LET sums == AxisSums(A, d) IN [i \in 1..A.shape[d] |-> sums[i] - ctl[d][i]]]

\* check_input_validity(data, marginals): TRUE when it raises nothing
check_input_validity(A, marg) ==
    /\ Len(A.shape) = Len(marg)
    /\ \A d \in Dims(A.shape) : Len(marg[d]) = A.shape[d]
    /\ \A d \in DOMAIN marg : SeqSum(marg[1]) = SeqSum(marg[d])

\* The raise-or-pass tests of check_output_validity(data, marginals)
check_output_validity(A, marg) ==
    LET err == compute_rounding_error(A, marg)
    IN  /\ \A d \in DOMAIN err : SeqSum(err[d]) = 0
        /\ \A c \in Cells(A.shape) : A.at[c] >= 0

(***************************************************************************)
(* nd_controlling_pulp_solver                                              *)
(***************************************************************************)
\* upBound=int(np.min((3, rounded_data[...])))
MaxCorrection == 3

\* valid_variables: non-zero cells with a non-zero rounding error on some axis
valid_variables(A, err) ==
    {c \in Cells(A.shape) : A.at[c] > 0 /\ \E d \in Dims(A.shape) : err[d][c[d]] # 0}

\* The variable's range [lowBound, upBound]
Mut_upBound(v) == IF v < 1 THEN v ELSE 1
upBound(v) == IF v < MaxCorrection THEN v ELSE MaxCorrection

\* The equations: one per axis and index whose marginal is positive
Equations(marg) == {e \in UNION {{<<d, i>> : i \in DOMAIN marg[d]} : d \in DOMAIN marg} :
                        marg[e[1]][e[2]] > 0}

\* The assignments that satisfy the bounds and the equations: what the solver
\* may hand back with status Optimal (the problem has no objective).
Solutions(A, marg, err) ==
    LET V == valid_variables(A, err)
    IN  {x \in [V -> 0..upBound(SetMax({0} \cup {A.at[c] : c \in V}))] :
            /\ \A c \in V : x[c] <= upBound(A.at[c])
            /\ \A e \in Equations(marg) :
                  SetSum(x, {c \in V : c[e[1]] = e[2]}) = err[e[1]][e[2]]}

\* rounded_data - corrections
Corrected(A, x) ==
    [shape |-> A.shape,
     at |-> [c \in Cells(A.shape) |-> IF c \in DOMAIN x THEN A.at[c] - x[c] ELSE A.at[c]]]

\* Lines 368-372: the total error of every axis must be zero
Mut_TotalsAreZero(A, marg) == TRUE
TotalsAreZero(A, marg) ==
    LET err == compute_rounding_error(A, marg)
    IN  \A d \in DOMAIN err : SeqSum(err[d]) = 0

\* The whole call on data given as numerators over den: its possible outcomes
nd_controlling_pulp_solver(D, den, marg) ==
    IF ~check_input_validity(D, marg) THEN {Raise("ValueError")}
    ELSE LET A == Ceil(D, den)
             err == compute_rounding_error(A, marg)
             sols == Solutions(A, marg, err)
         IN  IF sols = {} THEN {Raise("ValueError")}
             ELSE {IF TotalsAreZero(Corrected(A, x), marg)
                      THEN Return(Corrected(A, x))
                      ELSE Raise("ValueError") : x \in sols}

\* Lines 353-356, 504: pulp.LpStatus[problem.status] after problem.solve; ""
\* when the call raised before it built the problem
LpStatus(D, den, marg) ==
    IF ~check_input_validity(D, marg) THEN ""
    ELSE LET A == Ceil(D, den)
         IN  IF Solutions(A, marg, compute_rounding_error(A, marg)) = {}
             THEN "Infeasible" ELSE "Optimal"

(***************************************************************************)
(* nd_controlling_pulp_solver_2d                                           *)
(***************************************************************************)
\* The values var.varValue can hold after a solve that did not end Optimal:
\* any integers within the variables' bounds
Leftovers(A, err) ==
    LET V == valid_variables(A, err)
    IN  {x \in [V -> 0..upBound(SetMax({0} \cup {A.at[c] : c \in V}))] :
            \A c \in V : x[c] <= upBound(A.at[c])}

\* Lines 511-527: apply the corrections, check the totals, return
Applied(A, x, marg) ==
    IF TotalsAreZero(Corrected(A, x), marg)
    THEN Return(Corrected(A, x))
    ELSE Raise("ValueError")

\* The whole call on data given as numerators over den: its possible outcomes.
\* The status check at lines 507-509 is commented out, so the values the
\* solver left are applied whatever the status; a variable left without a
\* value (None) makes the subtraction at line 518 raise TypeError.
nd_controlling_pulp_solver_2d(D, den, marg) ==
    IF ~check_input_validity(D, marg) THEN {Raise("ValueError")}
    ELSE IF Len(D.shape) # 2 THEN {Raise("ValueError")}
    ELSE LET A == Ceil(D, den)
             err == compute_rounding_error(A, marg)
             sols == Solutions(A, marg, err)
         IN  IF sols # {} THEN {Applied(A, x, marg) : x \in sols}
             ELSE {Applied(A, x, marg) : x \in Leftovers(A, err)}
                      \cup {Raise("TypeError")}

(***************************************************************************)
(* _nd_controlling_fuzzy_step                                              *)
(***************************************************************************)
RECURSIVE Product(_, _, _)
Product(err, c, d) == IF d > Len(err) THEN 1 ELSE err[d][c[d]] * Product(err, c, d + 1)

\* Lines 115-122: np.einsum outer product of the axis errors, zeroed where the
\* data is zero (before the division by np.sum(weights))
Weights(A, err) ==
    [c \in Cells(A.shape) |-> IF A.at[c] = 0 THEN 0 ELSE Product(err, c, 1)]

Mut_SampleSize(err, fr) == (SeqSum(err[1]) * fr[1]) \div fr[2]

\* size=int(np.ceil(int(np.sum(rounding_error[0])) * frac))
SampleSize(err, fr) == CeilDiv(SeqSum(err[1]) * fr[1], fr[2])

\* Lines 162-175 for one slice: the cells whose correction is raised by one,
\* argsort(kind="stable")[-to_adj:] of |corrections * weights| over the
\* flattened slice
AdjustedCells(sh, d, i, corr, W, to_adj) ==
    LET cells == Slice(sh, d, i)
        key == [c \in cells |-> Abs(corr[c] * W[c])]
        Position(c) ==
            Cardinality({b \in cells :
                \/ key[b] < key[c]
                \/ key[b] = key[c] /\ FlatIndex(b, sh, 1) < FlatIndex(c, sh, 1)})
    IN  {c \in cells : Position(c) >= Cardinality(cells) - to_adj}

\* Lines 149-192 for one axis: every slice that overshoots gives back to_adj
\* units.  np.add.at broadcasts the picked cells against
\* np.repeat(overshoot_index, to_adj): a single picked cell takes all the units,
\* any other mismatch of the two lengths is an IndexError.
\* st = [corr, exc].
FixAxis(sh, d, st, err, W) ==
    LET sums == [i \in 1..sh[d] |-> SetSum(st.corr, Slice(sh, d, i))]
        overshoot == [i \in 1..sh[d] |-> sums[i] + err[d][i]]
        over == {i \in 1..sh[d] : overshoot[i] < 0}
        picked == [i \in over |-> AdjustedCells(sh, d, i, st.corr, W, -overshoot[i])]
        units(i) == IF Cardinality(picked[i]) = -overshoot[i] THEN 1 ELSE -overshoot[i]
    IN  IF \E i \in over : Cardinality(picked[i]) \notin {1, -overshoot[i]}
        THEN [st EXCEPT !.exc = "IndexError"]
        ELSE [st EXCEPT !.corr =
                [c \in Cells(sh) |->
                    IF c[d] \in over /\ c \in picked[c[d]]
                    THEN st.corr[c] + units(c[d]) ELSE st.corr[c]]]

RECURSIVE FixAxes(_, _, _, _, _)
FixAxes(sh, d, st, err, W) ==
    IF d > Len(sh) \/ st.exc # "" THEN st
    ELSE FixAxes(sh, d + 1, FixAxis(sh, d, st, err, W), err, W)

\* The whole step: its possible outcomes.  gen.choice(..., replace=False, p=...)
\* returns any `size` distinct cells of non-zero probability and raises
\* ValueError when p holds a NaN, an infinity or a negative entry, or has fewer
\* than `size` non-zero entries.
fuzzy_step(A, err, fr) ==
    LET sh == A.shape
        W == Weights(A, err)
        total == SetSum(W, Cells(sh))
        size == SampleSize(err, fr)
        support == {c \in Cells(sh) : W[c] # 0}
    IN  IF total = 0 THEN {Raise("ValueError")}
        ELSE IF \E c \in Cells(sh) : W[c] * total < 0 THEN {Raise("ValueError")}
        ELSE IF size < 0 \/ Cardinality(support) < size THEN {Raise("ValueError")}
        ELSE {LET drawn == [c \in Cells(sh) |-> IF c \in chosen THEN -1 ELSE 0]
                  st == FixAxes(sh, 1, [corr |-> drawn, exc |-> ""], err, W)
              IN  IF st.exc # "" THEN Raise(st.exc)
                  ELSE Return([shape |-> sh,
                               at |-> [c \in Cells(sh) |-> A.at[c] + st.corr[c]]])
              : chosen \in KSubsets(support, size)}

(***************************************************************************)
(* Calls of the ND rounders                                                *)
(***************************************************************************)
\* Arrays of the shape over Nat whose entries sum to at most s
BoundedArrays(sh, s) ==
    {[shape |-> sh, at |-> a] : a \in {f \in [Cells(sh) -> 0..s] : SetSum(f, Cells(sh)) <= s}}

ShapesND(n, cells) ==
    {sh \in [1..n -> 1..cells] : Cardinality(Cells(sh)) <= cells}

\* One control vector per axis, of the axis' length, each summing to at most s
RECURSIVE MarginalsUpTo(_, _, _)
MarginalsUpTo(sh, s, d) ==
    IF d = 0 THEN {<<>>}
    ELSE {Append(m, v) : m \in MarginalsUpTo(sh, s, d - 1), v \in BoundedVectors(sh[d], s)}

MarginalsND(sh, s) == MarginalsUpTo(sh, s, Len(sh))

InputsND(n, cells, mass, margsum) ==
    \E sh \in ShapesND(n, cells) :
        /\ nd_data \in BoundedArrays(sh, mass \div Cardinality(Cells(sh)))
        /\ marginals \in MarginalsND(sh, margsum)

InitExact ==
    /\ fn = "nd_controlling_pulp_solver"
    /\ pc = "call"
    /\ exc = ""
    /\ Idle1D
    /\ Idle2D
    /\ IdleX
    /\ IdleIPF
    /\ IdleCity
    /\ InputsND(n_dims, MaxCellsND, MaxMassND, MaxMargSumND)
    /\ frac = <<>> /\ threshold = 0
    /\ rounded_data = <<>> /\ step = 0 /\ back_step = 0 /\ checkpoints = <<>>

\* nd_controlling_pulp_solver(data, marginals)
CallExact ==
    /\ fn = "nd_controlling_pulp_solver"
    /\ pc = "call"
    /\ \E o \in nd_controlling_pulp_solver(nd_data, Denom, marginals) :
          /\ pc' = IF o.kind = "return" THEN "returned" ELSE "raised"
          /\ exc' = o.exc
          /\ result' = o.value
    /\ status' = LpStatus(nd_data, Denom, marginals)
    /\ UNCHANGED <<given, data_type, seed, gen_state, solver_calls, varsipf, varscity, solver_rank, fn, data,
                   control, methodology, generator, again, vars2d, varsnd>>

NextExact == CallExact

SpecExact == InitExact /\ [][NextExact]_vars

\* total_rounding_error = int(np.sum(rounding_error[0]))
total_rounding_error(A, marg) == SeqSum(compute_rounding_error(A, marg)[1])

Fracs == {<<1, 2>>, <<1, 1>>}

InitFuzzy ==
    /\ fn = "nd_controlling_fuzzy"
    /\ pc = "call"
    /\ exc = ""
    /\ Idle1D
    /\ Idle2D
    /\ IdleX
    /\ IdleIPF
    /\ IdleCity
    /\ InputsND(n_dims, MaxCellsND, MaxMassND, MaxMargSumND)
    /\ frac \in Fracs
    /\ threshold = 0
    /\ rounded_data = <<>> /\ step = 0 /\ back_step = 0 /\ checkpoints = <<>>

\* Lines 221-229: validation and rounding up
StartFuzzy ==
    /\ fn = "nd_controlling_fuzzy"
    /\ pc = "call"
    /\ IF check_input_validity(nd_data, marginals)
       THEN /\ rounded_data' = Ceil(nd_data, Denom)
            /\ pc' = "loop"
            /\ exc' = ""
       ELSE /\ pc' = "raised"
            /\ exc' = "ValueError"
            /\ UNCHANGED rounded_data
    /\ UNCHANGED <<varsx, varsipf, varscity, solver_rank, fn, vars1d, vars2d, nd_data, marginals, frac, threshold, step,
                   back_step, checkpoints>>

\* Lines 232-239: one pass of "while total_rounding_error > 0"
StepFuzzy ==
    /\ fn = "nd_controlling_fuzzy"
    /\ pc = "loop"
    /\ total_rounding_error(rounded_data, marginals) > 0
    /\ \E o \in fuzzy_step(rounded_data, compute_rounding_error(rounded_data, marginals), frac) :
          IF o.kind = "return"
          THEN /\ rounded_data' = o.value
               /\ UNCHANGED <<pc, exc>>
          ELSE /\ pc' = "raised"
               /\ exc' = o.exc
               /\ UNCHANGED rounded_data
    /\ UNCHANGED <<varsx, varsipf, varscity, solver_rank, fn, vars1d, vars2d, nd_data, marginals, frac, threshold, step,
                   back_step, checkpoints>>

\* Lines 241-249: the final checks and the return
FinishFuzzy ==
    /\ fn = "nd_controlling_fuzzy"
    /\ pc = "loop"
    /\ total_rounding_error(rounded_data, marginals) <= 0
    /\ IF /\ total_rounding_error(rounded_data, marginals) = 0
          /\ \A c \in Cells(rounded_data.shape) : rounded_data.at[c] >= 0
       THEN /\ pc' = "returned"
            /\ exc' = ""
            /\ result' = rounded_data
       ELSE /\ pc' = "raised"
            /\ exc' = "ValueError"
            /\ UNCHANGED result
    /\ UNCHANGED <<varsx, varsipf, varscity, solver_rank, fn, data, control, methodology, generator, again, vars2d, varsnd>>

NextFuzzy == StartFuzzy \/ StepFuzzy \/ FinishFuzzy

SpecFuzzy == InitFuzzy /\ [][NextFuzzy]_vars

(***************************************************************************)
(* nd_controlling_mixed_safe                                               *)
(***************************************************************************)
InitMixedSafe ==
    /\ fn = "nd_controlling_mixed_safe"
    /\ pc = "call"
    /\ exc = ""
    /\ Idle1D
    /\ Idle2D
    /\ IdleX
    /\ IdleIPF
    /\ IdleCity
    /\ InputsND(n_dims, MaxCellsND, MaxMassND, MaxMargSumND)
    /\ frac \in Fracs
    /\ threshold \in 0..MaxThreshold
    /\ rounded_data = <<>> /\ step = 0 /\ back_step = 0 /\ checkpoints = <<>>

\* Lines 642-645: where the call goes once the stochastic loop is left
AfterLoop(A, marg, stp) ==
    IF total_rounding_error(A, marg) # 0
    THEN [pc |-> "unwind", back_step |-> stp - 1]
    ELSE [pc |-> "final", back_step |-> 0]

\* Lines 603-620: validation, rounding up, and the shortcut to the exact solver
\* when the error is already below the threshold
StartMixedSafe ==
    /\ fn = "nd_controlling_mixed_safe"
    /\ pc = "call"
    /\ IF ~check_input_validity(nd_data, marginals)
       THEN /\ pc' = "raised"
            /\ exc' = "ValueError"
            /\ UNCHANGED <<rounded_data, result>>
       ELSE IF total_rounding_error(Ceil(nd_data, Denom), marginals) < threshold
       THEN /\ \E o \in nd_controlling_pulp_solver(nd_data, Denom, marginals) :
                  /\ pc' = IF o.kind = "return" THEN "returned" ELSE "raised"
                  /\ exc' = o.exc
                  /\ result' = o.value
            /\ rounded_data' = Ceil(nd_data, Denom)
       ELSE /\ rounded_data' = Ceil(nd_data, Denom)
            /\ pc' = "loop"
            /\ exc' = ""
            /\ UNCHANGED result
    /\ UNCHANGED <<varsx, varsipf, varscity, solver_rank, fn, data, control, methodology, generator, again, vars2d, nd_data,
                   marginals, frac, threshold, step, back_step, checkpoints>>

\* Lines 621-640: one pass of "while total_rounding_error > threshold": save
\* the array, try a stochastic step, leave the loop on ValueError
StepMixedSafe ==
    /\ fn = "nd_controlling_mixed_safe"
    /\ pc = "loop"
    /\ total_rounding_error(rounded_data, marginals) > threshold
    /\ checkpoints' = [i \in 1..(step + 1) |->
                          IF i = step + 1 THEN rounded_data ELSE checkpoints[i]]
    /\ \E o \in fuzzy_step(rounded_data, compute_rounding_error(rounded_data, marginals), frac) :
          IF o.kind = "return"
          THEN /\ rounded_data' = o.value
               /\ step' = step + 1
               /\ UNCHANGED <<pc, exc, back_step>>
          ELSE IF o.exc = "ValueError"
          THEN /\ pc' = AfterLoop(rounded_data, marginals, step).pc
               /\ back_step' = AfterLoop(rounded_data, marginals, step).back_step
               /\ UNCHANGED <<rounded_data, step, exc>>
          ELSE /\ pc' = "raised"
               /\ exc' = o.exc
               /\ UNCHANGED <<rounded_data, step, back_step>>
    /\ UNCHANGED <<varsx, varsipf, varscity, solver_rank, fn, vars1d, vars2d, nd_data, marginals, frac, threshold>>

\* The loop condition fails: on to lines 642-645
LeaveLoopMixedSafe ==
    /\ fn = "nd_controlling_mixed_safe"
    /\ pc = "loop"
    /\ total_rounding_error(rounded_data, marginals) <= threshold
    /\ pc' = AfterLoop(rounded_data, marginals, step).pc
    /\ back_step' = AfterLoop(rounded_data, marginals, step).back_step
    /\ UNCHANGED <<varsx, varsipf, varscity, solver_rank, fn, exc, vars1d, vars2d, nd_data, marginals, frac, threshold,
                   rounded_data, step, checkpoints>>

\* Lines 645-658: one pass of "for back_step in range(step - 1, -1, -1)": load
\* the checkpoint and try the exact solver on it
UnwindMixedSafe ==
    /\ fn = "nd_controlling_mixed_safe"
    /\ pc = "unwind"
    /\ IF back_step < 0
       THEN /\ pc' = "final"
            /\ UNCHANGED <<rounded_data, back_step>>
       ELSE LET loaded == checkpoints[back_step + 1]
            IN  \E o \in nd_controlling_pulp_solver(loaded, 1, marginals) :
                   IF o.kind = "return"
                   THEN /\ rounded_data' = o.value
                        /\ pc' = "final"
                        /\ UNCHANGED back_step
                   ELSE /\ rounded_data' = loaded
                        /\ back_step' = back_step - 1
                        /\ UNCHANGED pc
    /\ UNCHANGED <<varsx, varsipf, varscity, solver_rank, fn, exc, vars1d, vars2d, nd_data, marginals, frac, threshold,
                   step, checkpoints>>

\* Lines 660-664: check_output_validity and the return
FinishMixedSafe ==
    /\ fn = "nd_controlling_mixed_safe"
    /\ pc = "final"
    /\ IF check_output_validity(rounded_data, marginals)
       THEN /\ pc' = "returned"
            /\ exc' = ""
            /\ result' = rounded_data
       ELSE /\ pc' = "raised"
            /\ exc' = "ValueError"
            /\ UNCHANGED result
    /\ UNCHANGED <<varsx, varsipf, varscity, solver_rank, fn, data, control, methodology, generator, again, vars2d, varsnd>>

NextMixedSafe ==
    \/ StartMixedSafe \/ StepMixedSafe \/ LeaveLoopMixedSafe
    \/ UnwindMixedSafe \/ FinishMixedSafe

SpecMixedSafe == InitMixedSafe /\ [][NextMixedSafe]_vars

(***************************************************************************)
(* Properties of the ND rounders                                           *)
(***************************************************************************)
\* Every axis marginal of A equals its control, index by index
MatchesMarginals(A, marg) ==
    \A d \in Dims(A.shape) : \A i \in 1..A.shape[d] : AxisSums(A, d)[i] = marg[d][i]

NonNegativeCells(A) == \A c \in Cells(A.shape) : A.at[c] \in Nat

Finished == pc \in {"returned", "raised"}

\* C4: an array returned by nd_controlling_pulp_solver matches every marginal
\* at every index of every axis, and holds only non-negative integers.
C4_ExactPerSlice ==
    (fn = "nd_controlling_pulp_solver" /\ pc = "returned")
        => /\ MatchesMarginals(result, marginals)
           /\ NonNegativeCells(result)

\* C4 witness: the solver returned a corrected array for an input that has a
\* zero marginal, hence a slice without equation, on every axis.
C4_Witness ==
    /\ fn = "nd_controlling_pulp_solver" /\ pc = "returned"
    /\ \A d \in DOMAIN marginals : \E i \in DOMAIN marginals[d] : marginals[d][i] = 0
    /\ result # Ceil(nd_data, Denom)

\* C5: an array returned by nd_controlling_fuzzy has zero rounding error at
\* every index of every axis and no negative cell; an input that cannot be
\* brought there ends in an exception.
C5_FuzzyPerSlice ==
    (fn = "nd_controlling_fuzzy" /\ pc = "returned")
        => /\ MatchesMarginals(result, marginals)
           /\ NonNegativeCells(result)

\* The exact solver, run on the original input, returns whatever it picks
ExactSucceedsOnInput ==
    \A o \in nd_controlling_pulp_solver(nd_data, Denom, marginals) : o.kind = "return"

\* C6: nd_controlling_mixed_safe returns an array matching all marginals
\* whenever the exact solver succeeds on the original input.
C6_SafeFailsOnlyIfExactFails ==
    (fn = "nd_controlling_mixed_safe" /\ Finished /\ ExactSucceedsOnInput)
        => /\ pc = "returned"
           /\ MatchesMarginals(result, marginals)

\* The arrays of non-negative integers, cell-wise no larger than A and no more
\* than `most` below it, that match every marginal
Roundings(A, marg, most) ==
    {B \in {[shape |-> A.shape, at |-> a] :
                a \in [Cells(A.shape) -> 0..SetMax({A.at[c] : c \in Cells(A.shape)})]} :
        /\ \A c \in Cells(A.shape) : B.at[c] <= A.at[c] /\ A.at[c] - B.at[c] <= most
        /\ MatchesMarginals(B, marg)}

IsRounding(B, A, marg, most) ==
    /\ \A c \in Cells(A.shape) : B.at[c] \in 0..A.at[c] /\ A.at[c] - B.at[c] <= most
    /\ MatchesMarginals(B, marg)

\* Largest cell of the rounded-up input: no rounding lowers a cell by more
Unlimited == SetMax({0} \cup {CeilDiv(nd_data.at[c], Denom) : c \in DOMAIN nd_data.at})

\* C7 as stated: whenever some array of non-negative integers, cell-wise no
\* larger than the rounded-up data, matches every marginal,
\* nd_controlling_pulp_solver returns such an array.
C7_ExactComplete ==
    (/\ fn = "nd_controlling_pulp_solver" /\ Finished
     /\ check_input_validity(nd_data, marginals)
     /\ Roundings(Ceil(nd_data, Denom), marginals, Unlimited) # {})
        => /\ pc = "returned"
           /\ IsRounding(result, Ceil(nd_data, Denom), marginals, Unlimited)

\* On some axis every slice with a zero marginal holds only zeros
SomeAxisFullyConstrained(A, marg) ==
    \E d \in Dims(A.shape) : \A i \in 1..A.shape[d] :
        marg[d][i] = 0 => \A c \in Slice(A.shape, d, i) : A.at[c] = 0

\* C7 amended: whenever some array of non-negative integers matches every
\* marginal while lowering no cell of the rounded-up data by more than 3, and
\* on some axis the slices with a zero marginal hold only zeros,
\* nd_controlling_pulp_solver returns such an array.
C7_ExactCompleteWithinCap ==
    (/\ fn = "nd_controlling_pulp_solver" /\ Finished
     /\ check_input_validity(nd_data, marginals)
     /\ SomeAxisFullyConstrained(nd_data, marginals)
     /\ Roundings(Ceil(nd_data, Denom), marginals, MaxCorrection) # {})
        => /\ pc = "returned"
           /\ IsRounding(result, Ceil(nd_data, Denom), marginals, MaxCorrection)

\* C7 witness: the solver returned an array in which a cell went down by 3.
C7_Witness ==
    /\ fn = "nd_controlling_pulp_solver" /\ pc = "returned"
    /\ SomeAxisFullyConstrained(nd_data, marginals)
    /\ \E c \in DOMAIN nd_data.at :
          CeilDiv(nd_data.at[c], Denom) - result.at[c] = MaxCorrection

(***************************************************************************)
(* Repeated calls of the stochastic functions                              *)
(*                                                                         *)
(* A np.random.Generator is a state machine: what `choice` returns is a    *)
(* function of the generator's state and of its arguments, and the call    *)
(* moves the generator on.  The state is a number below GenPeriod; among   *)
(* the outcomes that the drawn sample can lead to, the generator in state  *)
(* g selects the one of rank g.  The solver is a function as well: of the  *)
(* assignments it may return it returns the one of rank solver_rank.       *)
(***************************************************************************)
MaxSeed == 1          \* seeds 0..MaxSeed
GenPeriod == 2        \* generator states 0..GenPeriod-1
MaxLenRepeat == 2     \* longest vector passed twice to integerize_1d
MaxCellsRepeat == 4   \* most cells of a square matrix, of entries 0 and 1/Denom,
                      \* passed twice to the ND rounders

\* The element of rank n of a non-empty finite set, in a fixed order
RECURSIVE Nth(_, _)
Nth(S, n) ==
    LET x == CHOOSE y \in S : TRUE
    IN  IF n = 0 THEN x ELSE Nth(S \ {x}, n - 1)

\* What a generator (or solver) of rank g yields among the possible outcomes
Draw(S, g) == Nth(S, g % Cardinality(S))

\* The generator after one call of choice
Advance(g) == (g + 1) % GenPeriod

\* gen = np.random.default_rng(seed): a new generator whose state is a
\* function of the seed, whatever generator `left` the process used before
Mut_default_rng(sd, left) == left
default_rng(sd, left) == sd % GenPeriod

RepeatedFunctions == {"integerize_1d", "nd_controlling_fuzzy", "nd_controlling_mixed"}

InitRepeat ==
    /\ fn \in RepeatedFunctions
    /\ pc = "call"
    /\ exc = ""
    /\ result = <<>> /\ again = <<>>
    /\ Idle2D
    /\ IdleIPF
    /\ IdleCity
    /\ seed \in 0..MaxSeed
    /\ gen_state \in 0..(GenPeriod - 1)
    /\ given = <<>> /\ data_type = "" /\ status = "" /\ solver_calls = <<>>
    /\ rounded_data = <<>> /\ step = 0 /\ back_step = 0 /\ checkpoints = <<>>
    /\ IF fn = "integerize_1d"
       THEN /\ data \in Vectors(MaxLenRepeat, 0..MaxVal)
            /\ control \in {<<>>} \cup {<<c>> : c \in 0..MaxCtrlNum}
            /\ methodology = "weighted_random"
            /\ generator = TRUE
            /\ nd_data = <<>> /\ marginals = <<>> /\ frac = <<>> /\ threshold = 0
            /\ solver_rank = 0
       ELSE /\ data = <<>> /\ control = <<>> /\ methodology = "" /\ generator = FALSE
            /\ \E sh \in {q \in Shapes(MaxCellsRepeat) : q[1] = q[2]} :
                  /\ nd_data \in {[shape |-> sh, at |-> a] : a \in [Cells(sh) -> {0, 1}]}
                  /\ marginals \in MarginalsND(sh, MaxMargSumND)
            /\ frac \in Fracs
            /\ solver_rank = 0
            /\ IF fn = "nd_controlling_mixed"
               THEN threshold \in 0..MaxThreshold
               ELSE threshold = 0

\* Labels of the first and of the repeated call
At(label, rerun) ==
    IF ~rerun THEN label
    ELSE CASE label = "call" -> "call_again"
           [] label = "loop" -> "loop_again"
           [] label = "returned" -> "returned_again"
           [] label = "raised" -> "raised_again"

\* The call ends with outcome o: the first call leaves it in result and exc,
\* the repeated call in again
EndRepeat(o, rerun) ==
    /\ pc' = At(IF o.kind = "return" THEN "returned" ELSE "raised", rerun)
    /\ IF rerun
       THEN again' = o /\ UNCHANGED <<result, exc>>
       ELSE result' = o.value /\ exc' = o.exc /\ UNCHANGED again

\* integerize_1d(data, control, "weighted_random", generator), the generator
\* being in state `seed` when it is passed
CallRepeat1D(rerun) ==
    /\ fn = "integerize_1d"
    /\ pc = At("call", rerun)
    /\ EndRepeat(Draw(integerize_1d(data, control, methodology, generator), seed), rerun)
    /\ gen_state' = Advance(seed)
    /\ UNCHANGED <<fn, data, control, methodology, generator, vars2d, varsnd, varsipf, varscity,
                   given, data_type, seed, status, solver_calls, solver_rank>>

\* nd-rounding.py lines 221-229 and 556-564: validation, the new generator,
\* rounding up
StartRepeatND(rerun) ==
    /\ fn \in {"nd_controlling_fuzzy", "nd_controlling_mixed"}
    /\ pc = At("call", rerun)
    /\ IF check_input_validity(nd_data, marginals)
       THEN /\ rounded_data' = Ceil(nd_data, Denom)
            /\ gen_state' = default_rng(seed, gen_state)
            /\ pc' = At("loop", rerun)
            /\ UNCHANGED <<result, exc, again>>
       ELSE /\ EndRepeat(Raise("ValueError"), rerun)
            /\ UNCHANGED <<rounded_data, gen_state>>
    /\ UNCHANGED <<fn, data, control, methodology, generator, vars2d, varsipf, varscity, nd_data,
                   marginals, frac, threshold, step, back_step, checkpoints,
                   given, data_type, seed, status, solver_calls, solver_rank>>

\* The loop of either function goes on: total_rounding_error > 0 (line 232),
\* total_rounding_error > threshold (line 567)
LoopsOn ==
    total_rounding_error(rounded_data, marginals) >
        (IF fn = "nd_controlling_mixed" THEN threshold ELSE 0)

\* One _nd_controlling_fuzzy_step with the generator in state gen_state
StepRepeatND(rerun) ==
    /\ fn \in {"nd_controlling_fuzzy", "nd_controlling_mixed"}
    /\ pc = At("loop", rerun)
    /\ LoopsOn
    /\ LET o == Draw(fuzzy_step(rounded_data,
                                compute_rounding_error(rounded_data, marginals), frac),
                     gen_state)
       IN  IF o.kind = "return"
           THEN /\ rounded_data' = o.value
                /\ UNCHANGED <<pc, result, exc, again>>
           ELSE /\ EndRepeat(o, rerun)
                /\ UNCHANGED rounded_data
    /\ gen_state' = Advance(gen_state)
    /\ UNCHANGED <<fn, data, control, methodology, generator, vars2d, varsipf, varscity, nd_data,
                   marginals, frac, threshold, step, back_step, checkpoints,
                   given, data_type, seed, status, solver_calls, solver_rank>>

\* After the loop: the final checks of nd_controlling_fuzzy (lines 241-249),
\* the solver of nd_controlling_mixed (lines 576-580)
FinishRepeatND(rerun) ==
    /\ fn \in {"nd_controlling_fuzzy", "nd_controlling_mixed"}
    /\ pc = At("loop", rerun)
    /\ ~LoopsOn
    /\ EndRepeat(IF fn = "nd_controlling_mixed"
                 THEN Draw(nd_controlling_pulp_solver(rounded_data, 1, marginals),
                           solver_rank)
                 ELSE IF /\ total_rounding_error(rounded_data, marginals) = 0
                         /\ \A c \in Cells(rounded_data.shape) : rounded_data.at[c] >= 0
                 THEN Return(rounded_data)
                 ELSE Raise("ValueError"), rerun)
    /\ UNCHANGED <<fn, data, control, methodology, generator, vars2d, varsnd, varsipf, varscity,
                   varsx, solver_rank>>

\* The caller calls again with equal arguments
Repeat ==
    /\ fn \in RepeatedFunctions
    /\ pc \in {"returned", "raised"}
    /\ pc' = "call_again"
    /\ rounded_data' = <<>>
    /\ UNCHANGED <<fn, exc, vars1d, vars2d, varsipf, varscity, nd_data, marginals, frac, threshold,
                   step, back_step, checkpoints, varsx, solver_rank>>

NextRepeat ==
    \/ Repeat
    \/ \E rerun \in BOOLEAN :
          \/ CallRepeat1D(rerun)
          \/ StartRepeatND(rerun)
          \/ StepRepeatND(rerun)
          \/ FinishRepeatND(rerun)

SpecRepeat == InitRepeat /\ [][NextRepeat]_vars

\* C11: two calls of a stochastic function with equal data, controls or
\* marginals, seed and frac (integerize_1d: generators in the same state) end
\* alike: both return the same array, or both raise the same exception,
\* whatever state earlier calls left the process generator in.
C11_Deterministic ==
    (fn \in RepeatedFunctions /\ pc \in {"returned_again", "raised_again"})
        => /\ again.value = result
           /\ again.exc = exc

\* C11 witness: nd_controlling_fuzzy has returned twice after drawing samples,
\* the first call having started with a generator left in another state than
\* the seed's.
C11_Witness ==
    /\ fn = "nd_controlling_fuzzy" /\ pc = "returned_again"
    /\ again.value = result
    /\ result # Ceil(nd_data, Denom)
    /\ Cardinality(fuzzy_step(Ceil(nd_data, Denom),
                              compute_rounding_error(Ceil(nd_data, Denom), marginals),
                              frac)) > 1

(***************************************************************************)
(* Calls of integerize_2d with arbitrary arguments: control vectors of    *)
(* any length, any condition, any list of neighborhoods                   *)
(***************************************************************************)
MaxNeighbor == 2   \* largest value in a nearest_neighbors list

Conditions == {"exact", "less than", "greater than"}

\* the nearest_neighbors lists of at most two values, the empty one included
NeighborLists == UNION {[1..n -> 1..MaxNeighbor] : n \in 0..2}

SquareShapes == {sh \in Shapes(MaxCells2D) : sh[1] = sh[2]}

Unstarted2D ==
    /\ fn = "integerize_2d"
    /\ pc = "call"
    /\ exc = ""
    /\ Idle1D
    /\ IdleND
    /\ IdleIPF
    /\ IdleCity
    /\ data_type = ""
    /\ seed = 0
    /\ gen_state = 0
    /\ status = ""
    /\ solver_calls = <<>>
    /\ solver_rank = 0
    /\ deviations = <<>>
    /\ adjustments = <<>>
    /\ relax_skip_condition = "None"
    /\ neighborhood = 0

\* Any control vectors and condition, the default neighborhoods
InitControls2D ==
    /\ Unstarted2D
    /\ \E sh \in SquareShapes :
          /\ array_2d \in BoundedMatrices(sh[1], sh[2], MaxMass2D)
          /\ \E n \in {sh[1], sh[1] + 1} : row_ctrls \in BoundedVectors(n, MaxCtrlSum2D)
          /\ \E n \in {sh[2], sh[2] + 1} : col_ctrls \in BoundedVectors(n, MaxCtrlSum2D)
    /\ condition \in Conditions
    /\ nearest_neighbors = <<1>>
    /\ given = [data |-> array_2d, nearest_neighbors |-> nearest_neighbors]

\* Control vectors of the matrix's shape that fit the condition, any list of
\* neighborhoods
InitNeighbors2D ==
    /\ Unstarted2D
    /\ \E sh \in SquareShapes :
          /\ array_2d \in BoundedMatrices(sh[1], sh[2], MaxMass2D)
          /\ row_ctrls \in BoundedVectors(sh[1], MaxCtrlSum2D)
          /\ col_ctrls \in BoundedVectors(sh[2], MaxCtrlSum2D)
    /\ condition \in {"exact", "less than"}
    /\ ControlsConsistent(row_ctrls, col_ctrls, condition)
    /\ nearest_neighbors \in NeighborLists
    /\ given = [data |-> array_2d, nearest_neighbors |-> nearest_neighbors]

Init2DArgs == InitControls2D \/ InitNeighbors2D

Spec2DArgs == Init2DArgs /\ [][Next2D]_vars

\* The controls the call must reject: a control vector whose length is not
\* the matrix's, unequal sums under "exact", a row sum below the column sum
\* under "less than", any other condition
InconsistentControls ==
    \/ Len(row_ctrls) # NRows(array_2d)
    \/ Len(col_ctrls) # NCols(array_2d)
    \/ condition = "exact" /\ SeqSum(row_ctrls) # SeqSum(col_ctrls)
    \/ condition = "less than" /\ SeqSum(row_ctrls) < SeqSum(col_ctrls)
    \/ condition \notin {"exact", "less than"}

\* C12: a call of integerize_2d with inconsistent controls (unequal sums
\* under "exact", row sum below column sum under "less than", a control
\* vector of the wrong length, or another condition) ends in a ValueError
\* in its first step, with no column rounded, no deviations computed and no
\* matrix returned.
C12_RejectsInconsistentControls ==
    [][(fn = "integerize_2d" /\ pc = "call" /\ InconsistentControls)
          => /\ pc' = "raised"
             /\ exc' = "ValueError"
             /\ array_2d' = array_2d
             /\ deviations' = <<>>
             /\ nearest_neighbors' = nearest_neighbors]_vars

\* a rejected call under "less than" whose matrix has an entry the column
\* rounding would have changed
C12_Witness ==
    /\ fn = "integerize_2d"
    /\ pc = "raised"
    /\ exc = "ValueError"
    /\ condition = "less than"
    /\ Len(row_ctrls) = NRows(array_2d)
    /\ Len(col_ctrls) = NCols(array_2d)
    /\ SeqSum(row_ctrls) < SeqSum(col_ctrls)
    /\ array_2d = given.data
    /\ \E r \in Rows(array_2d) : \E c \in Cols(array_2d) : array_2d[r][c] % Denom # 0

(***************************************************************************)
(* Calls of integerize_1d with arbitrary arguments: negative entries, a    *)
(* negative or very large control, any methodology, with and without a    *)
(* generator, data passed as an array or as a list                         *)
(***************************************************************************)
\* the smallest control at or above 1 / rel_tol that is not an integer
LargeControl ==
    SetMin({n \in rel_tol_inverse..(rel_tol_inverse + Denom) : n % Denom # 0})

Methodologies == allowed_methodology \cup {"nearest"}

Init1DArgs ==
    /\ fn = "integerize_1d"
    /\ pc = "call"
    /\ exc = ""
    /\ data \in Vectors(MaxLenRepeat, -1..MaxVal)
    /\ control \in {<<>>} \cup {<<c>> : c \in (-1..MaxCtrlNum) \cup {LargeControl}}
    /\ methodology \in Methodologies
    /\ generator \in BOOLEAN
    /\ result = <<>>
    /\ again = <<>>
    /\ Idle2D
    /\ IdleND
    /\ IdleIPF
    /\ IdleCity
    /\ given = [data |-> data]
    /\ data_type \in {"ndarray", "list"}
    /\ seed = 0
    /\ gen_state = 0
    /\ status = ""
    /\ solver_calls = <<>>
    /\ solver_rank = 0

Spec1DArgs == Init1DArgs /\ [][Call1D]_vars

\* The arguments the call must reject
InvalidArguments1D ==
    \/ \E i \in DOMAIN given.data : given.data[i] < 0
    \/ control # <<>> /\ control[1] < 0
    \/ control # <<>> /\ control[1] % Denom # 0
    \/ control = <<>> /\ SeqSum(given.data) % Denom # 0
    \/ methodology \notin allowed_methodology
    \/ methodology = "weighted_random" /\ ~generator

\* C13: a call of integerize_1d whose data has a negative entry, whose
\* control is negative, whose control (or data sum, when no control is
\* passed) is not an integer, whose methodology is not an allowed one, or
\* that asks for weighted_random without a generator, ends in a ValueError
\* with nothing scaled, rounded or returned.
C13_RejectsInvalidArguments ==
    (fn = "integerize_1d" /\ pc \in {"returned", "raised"} /\ InvalidArguments1D)
        => /\ pc = "raised"
           /\ exc = "ValueError"
           /\ result = <<>>

(***************************************************************************)
(* ipf_numpy (src/python/nd_rounding/ipf.py).  Cells, sums and ratios are  *)
(* exact non-negative rationals <<numerator, denominator>> in lowest terms *)
(***************************************************************************)
MaxCellsIPF == 4     \* most cells of a seed array
MaxMassIPF == 2      \* largest sum of the entries of a seed array
max_iters == 2       \* the argument max_iters

\* the default break_threshold, 0.01
break_threshold == <<1, 100>>

RECURSIVE GCD(_, _)
GCD(a, b) == IF b = 0 THEN a ELSE GCD(b, a % b)

Ratio(n, d) == LET g == GCD(n, d) IN IF g = 0 THEN <<n, d>> ELSE <<n \div g, d \div g>>
RatAdd(x, y) == Ratio(x[1] * y[2] + y[1] * x[2], x[2] * y[2])
RatMul(x, y) == Ratio(x[1] * y[1], x[2] * y[2])
RatLess(x, y) == x[1] * y[2] < y[1] * x[2]

\* |x - 1|
RatAbsMinusOne(x) == Ratio(Abs(x[1] - x[2]), x[2])

RECURSIVE RatSum(_, _)
RatSum(f, S) ==
    IF S = {} THEN <<0, 1>>
    ELSE LET x == CHOOSE y \in S : TRUE IN RatAdd(f[x], RatSum(f, S \ {x}))

RatMax(S) == CHOOSE x \in S : \A y \in S : ~RatLess(x, y)

\* Lines 39, 54: seed.sum over every axis but d
ipf_axis_sums(A, d) == [i \in 1..A.shape[d] |-> RatSum(A.at, Slice(A.shape, d, i))]

\* Lines 17-41: TRUE when the checks raise nothing
ipf_inputs_valid(A, marg) ==
    /\ Len(A.shape) = Len(marg)
    /\ \A d \in Dims(A.shape) : Len(marg[d]) = A.shape[d]
    /\ \A d \in DOMAIN marg : SeqSum(marg[d]) = SeqSum(marg[1])
    /\ \A d \in DOMAIN marg : \A i \in DOMAIN marg[d] :
          ~(marg[d][i] # 0 /\ ipf_axis_sums(A, d)[i] = <<0, 1>>)

\* Lines 57-62: np.divide(marginals[dim], current_sum, out=ones, where=current_sum != 0);
\* a division by zero gives a ratio with denominator 0
Mut_divide(marg, cur) ==
    [i \in DOMAIN cur |-> IF cur[i][1] # 0 THEN Ratio(marg[i] * cur[i][2], cur[i][1])
                          ELSE <<marg[i], 0>>]

divide(marg, cur) ==
    [i \in DOMAIN cur |-> IF cur[i][1] # 0 THEN Ratio(marg[i] * cur[i][2], cur[i][1])
                          ELSE <<1, 1>>]

\* Line 65: seed * adjustment_factor[slicer]
scaled(A, d, factor) ==
    [shape |-> A.shape, at |-> [c \in Cells(A.shape) |-> RatMul(A.at[c], factor[c[d]])]]

\* integer arrays as arrays of rationals
AsRatios(A) == [shape |-> A.shape, at |-> [c \in Cells(A.shape) |-> <<A.at[c], 1>>]]

\* seeds of non-negative integers and marginals of equal sums
InitIPF ==
    /\ fn = "ipf_numpy"
    /\ pc = "call"
    /\ exc = ""
    /\ Idle1D
    /\ Idle2D
    /\ nd_data = <<>> /\ frac = <<>> /\ threshold = 0
    /\ rounded_data = <<>> /\ step = 0 /\ back_step = 0 /\ checkpoints = <<>>
    /\ \E sh \in ShapesND(n_dims, MaxCellsIPF) :
          /\ ipf_seed \in {AsRatios(A) : A \in BoundedArrays(sh, MaxMassIPF)}
          /\ marginals \in {m \in MarginalsND(sh, MaxMargSumND) :
                               \A d \in DOMAIN m : SeqSum(m[d]) = SeqSum(m[1])}
    /\ given = [seed |-> ipf_seed]
    /\ data_type = "" /\ seed = 0 /\ gen_state = 0
    /\ status = "" /\ solver_calls = <<>> /\ solver_rank = 0
    /\ iteration = 0 /\ dim = 0 /\ max_adjustment_factor = <<>>
    /\ current_sum = <<>> /\ adjustment_factor = <<>>
    /\ IdleCity

\* Lines 17-49: the checks, then the first pass begins
StartIPF ==
    /\ fn = "ipf_numpy"
    /\ pc = "call"
    /\ IF ipf_inputs_valid(ipf_seed, marginals)
       THEN /\ pc' = "scale"
            /\ iteration' = 1
            /\ dim' = 1
            /\ max_adjustment_factor' = [d \in Dims(ipf_seed.shape) |-> <<0, 1>>]
            /\ exc' = ""
       ELSE /\ pc' = "raised"
            /\ exc' = "ValueError"
            /\ UNCHANGED <<iteration, dim, max_adjustment_factor>>
    /\ UNCHANGED <<varsx, varscity, solver_rank, fn, vars1d, vars2d, varsnd, ipf_seed, current_sum,
                   adjustment_factor>>

\* Lines 51-75: one scaling step; after the last axis the pass ends, and the
\* call returns when the pass changed little or was the last one allowed
ScaleIPF ==
    /\ fn = "ipf_numpy"
    /\ pc = "scale"
    /\ LET cur == ipf_axis_sums(ipf_seed, dim)
           factor == divide(marginals[dim], cur)
           maxes == [max_adjustment_factor EXCEPT
                        ![dim] = RatMax({RatAbsMinusOne(factor[i]) : i \in DOMAIN factor})]
           last == dim = Len(ipf_seed.shape)
       IN  /\ current_sum' = cur
           /\ adjustment_factor' = factor
           /\ ipf_seed' = scaled(ipf_seed, dim, factor)
           /\ IF ~last
              THEN /\ dim' = dim + 1
                   /\ max_adjustment_factor' = maxes
                   /\ UNCHANGED <<pc, iteration>>
              ELSE IF RatLess(RatMax(Range(maxes)), break_threshold) \/ iteration = max_iters
              THEN /\ pc' = "returned"
                   /\ max_adjustment_factor' = maxes
                   /\ UNCHANGED <<dim, iteration>>
              ELSE /\ iteration' = iteration + 1
                   /\ dim' = 1
                   /\ max_adjustment_factor' = [d \in Dims(ipf_seed.shape) |-> <<0, 1>>]
                   /\ UNCHANGED pc
    /\ UNCHANGED <<varsx, varscity, solver_rank, fn, exc, vars1d, vars2d, varsnd>>

NextIPF == StartIPF \/ ScaleIPF

SpecIPF == InitIPF /\ [][NextIPF]_vars

\* some index of some axis has a non-zero marginal and a zero seed sum
UnsupportedMarginal ==
    \E d \in DOMAIN marginals : \E i \in DOMAIN marginals[d] :
        /\ marginals[d][i] # 0
        /\ \A c \in Slice(given.seed.shape, d, i) : given.seed.at[c][1] = 0

\* a scaling step has just worked on a slice whose current sum was zero
ZeroSumSlices == {i \in DOMAIN current_sum : current_sum[i][1] = 0}

\* the axis the last scaling step worked on
LastAxis == IF pc = "scale" /\ dim > 1 THEN dim - 1 ELSE Len(ipf_seed.shape)

\* C14 as stated: an unsupported marginal is rejected with ValueError before
\* any scaling step, no scaling step divides by a zero sum, and a slice
\* whose current sum is zero is scaled by ratio 1 and has a zero target.
C14_ZeroSumHasZeroTarget ==
    fn = "ipf_numpy" =>
        /\ UnsupportedMarginal /\ pc # "call"
              => pc = "raised" /\ exc = "ValueError" /\ ipf_seed = given.seed
                    /\ adjustment_factor = <<>>
        /\ \A i \in DOMAIN adjustment_factor : adjustment_factor[i][2] # 0
        /\ \A i \in ZeroSumSlices :
              /\ adjustment_factor[i] = <<1, 1>>
              /\ marginals[LastAxis][i] = 0

\* C14 amended: an unsupported marginal is rejected with ValueError before
\* any scaling step, no scaling step divides by a zero sum, and a slice
\* whose current sum is zero is scaled by ratio 1; its target is zero only
\* if the slice was already zero in the seed passed in.
C14_NoDivisionByZero ==
    fn = "ipf_numpy" =>
        /\ UnsupportedMarginal /\ pc # "call"
              => pc = "raised" /\ exc = "ValueError" /\ ipf_seed = given.seed
                    /\ adjustment_factor = <<>>
        /\ \A i \in DOMAIN adjustment_factor : adjustment_factor[i][2] # 0
        /\ \A i \in ZeroSumSlices :
              /\ adjustment_factor[i] = <<1, 1>>
              /\ (\A c \in Slice(given.seed.shape, LastAxis, i) : given.seed.at[c][1] = 0)
                    => marginals[LastAxis][i] = 0

\* a scaling step met a zero-sum slice with a non-zero target: the slice was
\* emptied by an earlier step
C14_Witness ==
    /\ fn = "ipf_numpy"
    /\ pc \in {"scale", "returned"}
    /\ \E i \in ZeroSumSlices :
          /\ adjustment_factor[i] = <<1, 1>>
          /\ marginals[LastAxis][i] # 0

(***************************************************************************)
(* Calls of the two exact rounders, with the status of the solve           *)
(***************************************************************************)
ExactRounders == {"nd_controlling_pulp_solver", "nd_controlling_pulp_solver_2d"}

InitExactStatus ==
    /\ fn \in ExactRounders
    /\ pc = "call"
    /\ exc = ""
    /\ Idle1D
    /\ Idle2D
    /\ IdleX
    /\ IdleIPF
    /\ IdleCity
    /\ InputsND(n_dims, MaxCellsND, MaxMassND, MaxMargSumND)
    /\ frac = <<>> /\ threshold = 0
    /\ rounded_data = <<>> /\ step = 0 /\ back_step = 0 /\ checkpoints = <<>>

\* nd_controlling_pulp_solver_2d(data, marginals)
CallExact2D ==
    /\ fn = "nd_controlling_pulp_solver_2d"
    /\ pc = "call"
    /\ \E o \in nd_controlling_pulp_solver_2d(nd_data, Denom, marginals) :
          /\ pc' = IF o.kind = "return" THEN "returned" ELSE "raised"
          /\ exc' = o.exc
          /\ result' = o.value
    /\ status' = IF Len(nd_data.shape) # 2 THEN "" ELSE LpStatus(nd_data, Denom, marginals)
    /\ UNCHANGED <<given, data_type, seed, gen_state, solver_calls, varsipf, varscity, solver_rank, fn, data,
                   control, methodology, generator, again, vars2d, varsnd>>

NextExactStatus == CallExact \/ CallExact2D

SpecExactStatus == InitExactStatus /\ [][NextExactStatus]_vars

\* C15: when the solve of either exact rounder ends with a status other
\* than Optimal, the call ends in an exception and returns no array.
C15_FailsUnlessOptimal ==
    (fn \in ExactRounders /\ pc \in {"returned", "raised"} /\ status \notin {"", "Optimal"})
        => /\ pc = "raised"
           /\ result = <<>>

(***************************************************************************)
(* The caller's arguments after a call of integerize_1d or integerize_2d  *)
(***************************************************************************)
InitArgs == Init1DArgs \/ Init2DArgs

NextArgs == Call1D \/ Next2D

SpecArgs == InitArgs /\ [][NextArgs]_vars

\* C16: integerize_1d leaves the caller's data as it was passed in, and
\* integerize_2d leaves the caller's matrix and nearest_neighbors list as
\* they were passed in, after any call.
C16_ArgumentsUnchanged ==
    /\ fn = "integerize_1d" => data = given.data
    /\ fn = "integerize_2d" => nearest_neighbors = given.nearest_neighbors

(***************************************************************************)
(* Calls of nd_controlling_mixed, with the arrays handed to the exact      *)
(* solver on record                                                        *)
(***************************************************************************)
\* square arrays only
InitMixed ==
    /\ fn = "nd_controlling_mixed"
    /\ pc = "call"
    /\ exc = ""
    /\ Idle1D
    /\ Idle2D
    /\ IdleX
    /\ IdleIPF
    /\ IdleCity
    /\ \E sh \in {q \in Shapes(MaxCellsND) : q[1] = q[2]} :
          /\ nd_data \in BoundedArrays(sh, MaxMassND \div Cardinality(Cells(sh)))
          /\ marginals \in MarginalsND(sh, MaxMargSumND)
    /\ frac \in Fracs
    /\ threshold \in 0..MaxThreshold
    /\ rounded_data = <<>> /\ step = 0 /\ back_step = 0 /\ checkpoints = <<>>

\* Lines 556-564: validation and rounding up
StartMixed ==
    /\ fn = "nd_controlling_mixed"
    /\ pc = "call"
    /\ IF check_input_validity(nd_data, marginals)
       THEN /\ rounded_data' = Ceil(nd_data, Denom)
            /\ pc' = "loop"
            /\ exc' = ""
       ELSE /\ pc' = "raised"
            /\ exc' = "ValueError"
            /\ UNCHANGED rounded_data
    /\ UNCHANGED <<varsx, varsipf, varscity, solver_rank, fn, vars1d, vars2d, nd_data, marginals, frac,
                   threshold, step, back_step, checkpoints>>

\* Line 567: while total_rounding_error > threshold
Mut_KeepsStepping(A, marg, thr) == total_rounding_error(A, marg) > thr + 1

KeepsStepping(A, marg, thr) == total_rounding_error(A, marg) > thr

\* Lines 567-574: one stochastic step
StepMixed ==
    /\ fn = "nd_controlling_mixed"
    /\ pc = "loop"
    /\ KeepsStepping(rounded_data, marginals, threshold)
    /\ \E o \in fuzzy_step(rounded_data, compute_rounding_error(rounded_data, marginals), frac) :
          IF o.kind = "return"
          THEN /\ rounded_data' = o.value
               /\ step' = step + 1
               /\ UNCHANGED <<pc, exc>>
          ELSE /\ pc' = "raised"
               /\ exc' = o.exc
               /\ UNCHANGED <<rounded_data, step>>
    /\ UNCHANGED <<varsx, varsipf, varscity, solver_rank, fn, vars1d, vars2d, nd_data, marginals, frac,
                   threshold, back_step, checkpoints>>

\* Lines 576-580: the exact solver on the array the loop left, and the return
SolveMixed ==
    /\ fn = "nd_controlling_mixed"
    /\ pc = "loop"
    /\ ~KeepsStepping(rounded_data, marginals, threshold)
    /\ solver_calls' = Append(solver_calls, rounded_data)
    /\ \E o \in nd_controlling_pulp_solver(rounded_data, 1, marginals) :
          /\ pc' = IF o.kind = "return" THEN "returned" ELSE "raised"
          /\ exc' = o.exc
          /\ result' = o.value
    /\ UNCHANGED <<given, data_type, seed, gen_state, status, varsipf, varscity, solver_rank, fn, data,
                   control, methodology, generator, again, vars2d, varsnd>>

NextMixed == StartMixed \/ StepMixed \/ SolveMixed

SpecMixed == InitMixed /\ [][NextMixed]_vars

\* the call of nd_controlling_mixed has ended, and not in its validation
LeftLoop == fn = "nd_controlling_mixed" /\ pc \in {"returned", "raised"} /\ rounded_data # <<>>

Init2DFair ==
    /\ fn = "integerize_2d"
    /\ pc = "call"
    /\ exc = ""
    /\ Idle1D
    /\ IdleND
    /\ IdleX
    /\ IdleIPF
    /\ IdleCity
    /\ \E sh \in SquareShapes :
          /\ array_2d \in BoundedMatrices(sh[1], sh[2], MaxMass2D)
          /\ row_ctrls \in BoundedVectors(sh[1], MaxCtrlSum2D)
          /\ col_ctrls \in BoundedVectors(sh[2], MaxCtrlSum2D)
    /\ condition \in {"exact", "less than"}
    /\ ControlsConsistent(row_ctrls, col_ctrls, condition)
    /\ nearest_neighbors = <<1>>
    /\ deviations = <<>>
    /\ adjustments = <<>>
    /\ relax_skip_condition = "None"
    /\ neighborhood = 0

\* the passes of the correction loop
Loop2D == Decrement2D \/ Increment2D \/ Recalculate2D

Spec2DFair == Init2DFair /\ [][Next2D]_vars /\ WF_vars(Loop2D)

InLoop2D == fn = "integerize_2d" /\ pc \in {"decrement", "increment", "recalculate"}

\* the sum of the absolute row deviations
TotalDeviation(dev) == SeqSum([r \in DOMAIN dev |-> Abs(dev[r])])

\* the relaxation tiers in their order; within "Nearest Neighbors" the
\* neighborhood counts
Tier(relax) == CASE relax = "None" -> 0
                 [] relax = "Nearest Neighbors" -> 1
                 [] OTHER -> 2

TierAdvanced ==
    \/ Tier(relax_skip_condition') > Tier(relax_skip_condition)
    \/ /\ relax_skip_condition' = "Nearest Neighbors"
       /\ relax_skip_condition = "Nearest Neighbors"
       /\ neighborhood' > neighborhood

\* C18: every call of integerize_2d on a non-negative matrix with
\* non-negative integer controls ends: each pass of the correction loop
\* lowers the sum of the absolute row deviations or advances the relaxation
\* tier or raises, the loop raises only from a pass without progress in
\* "Allow all Columns", and every call eventually returns or raises.
C18_Terminates ==
    /\ [][(pc = "recalculate" /\ fn = "integerize_2d")
             => \/ TotalDeviation(deviations') < TotalDeviation(deviations)
                \/ TierAdvanced
                \/ /\ pc' = "raised"
                   /\ relax_skip_condition = "Allow all Columns"
                   /\ deviations = Deviations(array_2d, row_ctrls)]_vars
    /\ [][(InLoop2D /\ pc' = "raised") => pc = "recalculate"]_vars
    /\ InLoop2D ~> (pc \in {"returned", "raised"})

\* a call that went through both relaxations has returned
C18_Witness ==
    /\ fn = "integerize_2d"
    /\ pc = "returned"
    /\ relax_skip_condition = "Allow all Columns"
    /\ neighborhood > 0
    /\ deviations # <<>>

(***************************************************************************)
(* The order of the relaxation tiers of integerize_2d                      *)
(***************************************************************************)
\* the pass that ends now changed no row deviation
NoProgress == deviations = Deviations(array_2d, row_ctrls)

\* the values of the caller's list above the current neighborhood
LargerValues == {n \in Range(given.nearest_neighbors) : n > neighborhood}

\* C19: the relaxation tier of integerize_2d changes only at the end of a
\* pass that changed no row deviation, and only forward: from None to
\* "Nearest Neighbors" with the smallest value of nearest_neighbors, from
\* there to the next larger value of the list, and to "Allow all Columns"
\* when no larger value is left; the loop raises only at the end of such a
\* pass in "Allow all Columns".
C19_TiersOnlyForward ==
    /\ [][(fn = "integerize_2d"
              /\ (relax_skip_condition' # relax_skip_condition \/ neighborhood' # neighborhood))
            => /\ pc = "recalculate"
               /\ NoProgress
               /\ CASE relax_skip_condition = "None" ->
                         /\ relax_skip_condition' = "Nearest Neighbors"
                         /\ neighborhood' = SetMin(Range(given.nearest_neighbors))
                    [] relax_skip_condition = "Nearest Neighbors" ->
                         IF LargerValues # {}
                         THEN /\ relax_skip_condition' = "Nearest Neighbors"
                              /\ neighborhood' = SetMin(LargerValues)
                         ELSE /\ relax_skip_condition' = "Allow all Columns"
                              /\ neighborhood' = neighborhood
                    [] OTHER -> FALSE]_vars
    /\ [][(InLoop2D /\ pc' = "raised")
            => /\ pc = "recalculate"
               /\ NoProgress
               /\ relax_skip_condition = "Allow all Columns"]_vars

\* a call given the list [2, 1] is in its second neighborhood
C19_Witness ==
    /\ InLoop2D
    /\ given.nearest_neighbors = <<2, 1>>
    /\ relax_skip_condition = "Nearest Neighbors"
    /\ neighborhood = 2

(***************************************************************************)
(* The ledger of column adjustments of integerize_2d                       *)
(***************************************************************************)
\* every entry of the ledger is non-negative and makes up what its column
\* is short of its control
Ledger(arr, adj) ==
    \A c \in Cols(arr) :
        /\ adj[c] >= 0
        /\ SeqSum(Column(arr, c)) + adj[c] = col_ctrls[c]

\* the deviations of the first k rows, the other rows taken as settled: a
\* pass cut short after row k
FirstRows(dev, k) == [r \in DOMAIN dev |-> IF r <= k THEN dev[r] ELSE 0]

\* C20: at every point of the correction loop of integerize_2d, between the
\* passes and after each row of a pass, every ledger entry adjustments[c] is
\* non-negative and the column sum of c plus adjustments[c] is col_ctrls[c].
C20_LedgerInvariant ==
    InLoop2D =>
        /\ Ledger(array_2d, adjustments)
        /\ pc = "decrement" =>
              \A k \in Rows(array_2d) :
                  LET st == DecrementRows([arr |-> array_2d, adj |-> adjustments, exc |-> ""],
                                          FirstRows(deviations, k), 1)
                  IN  st.exc = "" /\ Ledger(st.arr, st.adj)
        /\ pc = "increment" =>
              \A k \in Rows(array_2d) :
                  LET st == IncrementRows([arr |-> array_2d, adj |-> adjustments, exc |-> ""],
                                          FirstRows(deviations, k), 1,
                                          relax_skip_condition, neighborhood)
                  IN  Ledger(st.arr, st.adj)

\* after a relaxation one column is still owed a unit and a cell has been
\* given one back in the same pass
C20_Witness ==
    /\ InLoop2D
    /\ pc = "recalculate"
    /\ relax_skip_condition # "None"
    /\ \E c \in Cols(array_2d) : adjustments[c] > 0
    /\ \E r \in Rows(array_2d) : deviations[r] < 0 /\ SeqSum(array_2d[r]) - row_ctrls[r] > deviations[r]

(***************************************************************************)
(* The unwinding of nd_controlling_mixed_safe                              *)
(***************************************************************************)
\* The stochastic loop was left by a dead end: the array of the step that
\* raised was saved (line 625) and step was not advanced (line 640)
DeadEnded ==
    /\ fn = "nd_controlling_mixed_safe"
    /\ pc = "unwind"
    /\ Len(checkpoints) = step + 1

\* No checkpoint has been loaded yet: back_step still has the first value of
\* range(step - 1, -1, -1)
FirstTry == back_step = step - 1

\* C21: after a dead end of a stochastic step the first checkpoint tried is
\* the most recent one, the array saved immediately before the step that
\* dead-ended (checkpoints are numbered from 0, back_step is the number of the
\* checkpoint about to be loaded).
C21_LatestCheckpointFirst ==
    (DeadEnded /\ FirstTry) => back_step = Len(checkpoints) - 1

\* The stochastic loop was left by its condition after at least one step:
\* every saved array was followed by a completed step
ReachedThreshold ==
    /\ fn = "nd_controlling_mixed_safe"
    /\ pc = "unwind"
    /\ step >= 1
    /\ Len(checkpoints) = step

\* C22: when the stochastic steps of nd_controlling_mixed_safe bring the
\* total error down to the threshold without a dead end and error remains,
\* the first array handed to the exact solver is the one the last stochastic
\* step produced, not an earlier checkpoint.
C22_SolverOnLastStep ==
    (ReachedThreshold /\ FirstTry) => checkpoints[back_step + 1] = rounded_data

(***************************************************************************)
(* Progress of the stochastic step                                         *)
(***************************************************************************)
\* Every axis error of A is non-negative and every cell a non-negative integer
Sound(A, marg) ==
    /\ \A d \in Dims(A.shape) : \A i \in 1..A.shape[d] :
           compute_rounding_error(A, marg)[d][i] >= 0
    /\ NonNegativeCells(A)

\* Lines 232-239 with the passes counted: step is the number of passes of
\* "while total_rounding_error > 0" that returned
CountedStepFuzzy ==
    /\ fn = "nd_controlling_fuzzy"
    /\ pc = "loop"
    /\ total_rounding_error(rounded_data, marginals) > 0
    /\ \E o \in fuzzy_step(rounded_data, compute_rounding_error(rounded_data, marginals), frac) :
          IF o.kind = "return"
          THEN /\ rounded_data' = o.value
               /\ step' = step + 1
               /\ UNCHANGED <<pc, exc>>
          ELSE /\ pc' = "raised"
               /\ exc' = o.exc
               /\ UNCHANGED <<rounded_data, step>>
    /\ UNCHANGED <<varsx, varsipf, varscity, solver_rank, fn, vars1d, vars2d, nd_data, marginals, frac, threshold,
                   back_step, checkpoints>>

NextFuzzySteps == StartFuzzy \/ CountedStepFuzzy \/ FinishFuzzy

SpecFuzzySteps == InitFuzzy /\ [][NextFuzzySteps]_vars

InLoopFuzzy == fn = "nd_controlling_fuzzy" /\ pc = "loop"

\* What one step that does not raise does to a sound array B -> o
StepProgress(B, o, marg) ==
    /\ Sound(o, marg)
    /\ \A c \in Cells(B.shape) : o.at[c] \in {B.at[c], B.at[c] - 1}
    /\ total_rounding_error(o, marg) < total_rounding_error(B, marg)

\* C23: from an array whose axis errors are all non-negative and whose cells
\* are non-negative integers, every outcome of _nd_controlling_fuzzy_step
\* that is not an exception leaves all axis errors non-negative, every cell
\* unchanged or lower by exactly one and non-negative, and the total error
\* strictly smaller; when nd_controlling_fuzzy starts from such an array, the
\* passes it has made plus the error still left never exceed the total error
\* it started with, so the loop ends after at most that many passes.
C23_StepProgress ==
    InLoopFuzzy =>
        /\ Sound(rounded_data, marginals) =>
              \A o \in fuzzy_step(rounded_data,
                                  compute_rounding_error(rounded_data, marginals), frac) :
                 (total_rounding_error(rounded_data, marginals) > 0 /\ o.kind = "return")
                     => StepProgress(rounded_data, o.value, marginals)
        /\ Sound(Ceil(nd_data, Denom), marginals) =>
              /\ Sound(rounded_data, marginals)
              /\ step + total_rounding_error(rounded_data, marginals)
                    <= total_rounding_error(Ceil(nd_data, Denom), marginals)

\* two passes have lowered a sound array and error is left for another
C23_Witness ==
    /\ InLoopFuzzy
    /\ Sound(rounded_data, marginals)
    /\ step = 2
    /\ total_rounding_error(rounded_data, marginals) > 0

\* The cells that are lower in o than in B
Lowered(B, o) == {c \in Cells(B.shape) : o.at[c] < B.at[c]}

MaxMassColumns == 3  \* largest sum of the entries of a matrix whose columns are rounded

\* Square matrices heavy enough for the policies of integerize_1d to differ
\* on a column, with controls that pass the checks
InitColumns2D ==
    /\ Unstarted2D
    /\ \E sh \in SquareShapes :
          /\ array_2d \in BoundedMatrices(sh[1], sh[2], MaxMassColumns)
          /\ row_ctrls \in BoundedVectors(sh[1], MaxCtrlSum2D)
          /\ col_ctrls \in BoundedVectors(sh[2], MaxCtrlSum2D)
    /\ condition \in {"exact", "less than"}
    /\ ControlsConsistent(row_ctrls, col_ctrls, condition)
    /\ nearest_neighbors = <<1>>
    /\ given = [data |-> array_2d, nearest_neighbors |-> nearest_neighbors]

SpecColumns2D == InitColumns2D /\ [][Next2D]_vars

\* The call passes from its arguments to the matrix with rounded columns
ColumnPass == fn = "integerize_2d" /\ pc = "call" /\ pc' \notin {"call", "raised"}

\* Every column after the pass is what integerize_1d returns for the column
\* before it, its control and the methodology
ColumnsRoundedBy(meth) ==
    \A c \in Cols(array_2d) :
        \E o \in integerize_1d(Column(array_2d, c), <<col_ctrls[c] * Denom>>, meth, FALSE) :
            /\ o.kind = "return"
            /\ Column(array_2d', c) = o.value

\* C25 as stated: the column pass of integerize_2d gives the matrix that
\* integerize_1d(column, col_ctrl, methodology='largest') gives column by
\* column.
C25_ColumnsByLargest == [][ColumnPass => ColumnsRoundedBy("largest")]_vars

\* C25 amended: the column pass of integerize_2d gives the matrix that
\* integerize_1d(column, col_ctrl) with its default methodology,
\* 'largest_difference', gives column by column.
C25_ColumnsByLargestDifference ==
    [][ColumnPass => ColumnsRoundedBy("largest_difference")]_vars

\* the column pass has run on a matrix with a column that the two policies
\* round differently
C25_Witness ==
    /\ fn = "integerize_2d"
    /\ pc \notin {"call", "raised"}
    /\ \E c \in Cols(given.data) :
          integerize_1d(Column(given.data, c), <<col_ctrls[c] * Denom>>, "largest", FALSE)
              # integerize_1d(Column(given.data, c), <<col_ctrls[c] * Denom>>,
                              "largest_difference", FALSE)

(***************************************************************************)
(* The largest_difference policy of integerize_1d                          *)
(***************************************************************************)
\* The control the call scales to: the one given, or the sum of the data
EffectiveControl ==
    (IF control = <<>> THEN SeqSum(given.data) ELSE control[1]) \div Denom

\* A largest_difference call that went through the scaling with an overshoot
Overshot ==
    /\ Is1D /\ pc = "returned"
    /\ methodology = "largest_difference"
    /\ HasPositive(given.data)
    /\ control = <<>> => SeqSum(given.data) % Denom = 0
    /\ control # <<>> => control[1] % Denom = 0
    /\ diff_1d(given.data, EffectiveControl) > 0

\* C26: under largest_difference with overshoot diff > 0 every entry of the
\* result is ceil(scaled) or ceil(scaled) - 1, exactly diff entries are the
\* lower value, and these are the entries with the largest rounding gain
\* ceil(scaled) - scaled, the higher index first among equal gains; the data
\* [0.3, 0.3, 0.4] with control 1 gives [0, 0, 1].
C26_LargestGainDecremented ==
    /\ Overshot =>
          LET c == EffectiveControl
              ceiled == rounded_data_1d(given.data, c)
              gain == rounding_difference(given.data, c)
              lowered == {i \in Indices(result) : result[i] = ceiled[i] - 1}
          IN  /\ \A i \in Indices(result) : result[i] \in {ceiled[i], ceiled[i] - 1}
              /\ Cardinality(lowered) = diff_1d(given.data, c)
              /\ \A i \in lowered : \A j \in Indices(result) \ lowered :
                    \/ gain[i] > gain[j]
                    \/ gain[i] = gain[j] /\ i > j
    /\ integerize_1d(<<3, 3, 4>>, <<Denom>>, "largest_difference", FALSE)
          = {Return(<<0, 0, 1>>)}

\* a call with an overshoot of two and two equal largest gains has returned
C26_Witness ==
    /\ Overshot
    /\ diff_1d(given.data, EffectiveControl) = 2
    /\ \E i, j \in Indices(result) :
          /\ i < j
          /\ rounding_difference(given.data, EffectiveControl)[i]
                = rounding_difference(given.data, EffectiveControl)[j]
          /\ result[i] # result[j]

(***************************************************************************)
(* The 'Nearest Neighbors' tier of integerize_2d                           *)
(***************************************************************************)
\* The columns within k of column c, clipped to the row
Neighborhood(row, c, k) == {j \in DOMAIN row : j >= c - k /\ j <= c + k}

\* The first row the increment pass will change: the state at "increment" is
\* the one its choice of columns is made in
FirstLowRow == SetMin({r \in DOMAIN deviations : deviations[r] < 0})

IncrementsUnderNeighbors ==
    /\ fn = "integerize_2d"
    /\ pc = "increment"
    /\ relax_skip_condition = "Nearest Neighbors"
    /\ \E r \in DOMAIN deviations : deviations[r] < 0
    /\ \E c \in DOMAIN adjustments : adjustments[c] > 0

\* C27: under the 'Nearest Neighbors' tier with neighborhood k, the columns
\* eligible for incrementing a too-low row are exactly the columns c with a
\* positive ledger entry for which some cell of the row in columns c-k
\* through c+k (clipped to the matrix) is non-zero.
C27_EligibleUnderNeighbors ==
    IncrementsUnderNeighbors =>
        LET row == array_2d[FirstLowRow]
        IN  EligibleColumns(row, adjustments, relax_skip_condition, neighborhood)
              = {c \in DOMAIN row :
                    /\ adjustments[c] > 0
                    /\ \E j \in Neighborhood(row, c, neighborhood) : row[j] # 0}

(***************************************************************************)
(* The decrement pass of integerize_2d                                     *)
(***************************************************************************)
\* The first column holding the smallest positive value of the row
SmallestPositive(row) ==
    LET least == SetMin({row[c] : c \in {k \in DOMAIN row : row[k] > 0}})
    IN  SetMin({c \in DOMAIN row : row[c] = least})

\* C28: a pass over the rows with positive deviation lowers, in each such
\* row, exactly one cell by one: the first column holding the smallest
\* positive value of the row; the ledger entry of a column grows by the number
\* of rows lowered in it, the other rows are left alone, and no cell becomes
\* negative.
C28_DecrementPass ==
    [][(fn = "integerize_2d" /\ pc = "decrement") =>
          /\ pc' = "increment"
          /\ \A r \in Rows(array_2d) :
                IF deviations[r] > 0
                THEN /\ \E c \in Cols(array_2d) : array_2d[r][c] > 0
                     /\ array_2d'[r] = [array_2d[r] EXCEPT ![SmallestPositive(array_2d[r])] = @ - 1]
                ELSE array_2d'[r] = array_2d[r]
          /\ \A c \in Cols(array_2d) :
                adjustments'[c] = adjustments[c]
                    + Cardinality({r \in Rows(array_2d) :
                          deviations[r] > 0 /\ SmallestPositive(array_2d[r]) = c})
          /\ \A r \in Rows(array_2d) : \A c \in Cols(array_2d) : array_2d'[r][c] >= 0]_vars

\* a pass has lowered one row in its first smallest positive cell, which is
\* not the first cell of the row, and left another row alone
C28_Witness ==
    /\ fn = "integerize_2d"
    /\ pc = "increment"
    /\ \E r \in Rows(array_2d) : deviations[r] <= 0
    /\ \E r \in Rows(array_2d) : \E c \in Cols(array_2d) :
          /\ deviations[r] > 0
          /\ c > 1
          /\ array_2d[r][1] > array_2d[r][c] + 1
          /\ adjustments[c] > 0

(***************************************************************************)
(* Households of a city: _create_hs_hh (src/python/hs_hh.py)               *)
(***************************************************************************)
MaxRecords == 3      \* most records (MGRA by structure type) of a city
MaxStock == 2        \* largest housing stock of a record
MaxHouseholds == 3   \* largest household count of a record after saferound

\* hs_hh.py lines 52-71
_calculate_hh_adjustment(households, housing_stock) ==
    IF households > housing_stock THEN -1 * (households - housing_stock)
    ELSE IF households < 0 THEN -1 * households
    ELSE 0

\* The index sets that .sort_values(by=key, ascending=False).head(records).index
\* can give on the eligible records: the records with the largest keys; the
\* default sort is not stable, so any of the records with equal keys may be kept
SortedHead(eligible, key, records) ==
    {indices \in SUBSET eligible :
        /\ Cardinality(indices) = IF records < Cardinality(eligible)
                                  THEN records ELSE Cardinality(eligible)
        /\ \A i \in indices : \A j \in eligible \ indices : key[i] >= key[j]}

\* The state after line 170 for one city: the scaled households have been
\* integerized by iteround.saferound.  The scaled value of a record is its
\* stock times its tract rate times city_rate / obs_rate, so it is zero
\* without stock and non-negative otherwise, and saferound keeps the rounded
\* total; the city rate is an occupancy rate, at most one household per unit.
InitHsHh ==
    /\ fn = "_create_hs_hh"
    /\ pc = "integerized"
    /\ exc = ""
    /\ Idle1D
    /\ Idle2D
    /\ IdleND
    /\ IdleIPF
    /\ data_type = "" /\ seed = 0 /\ gen_state = 0
    /\ status = "" /\ solver_calls = <<>> /\ solver_rank = 0
    /\ value_hs \in Vectors(MaxRecords, 0..MaxStock)
    /\ value_hh \in [DOMAIN value_hs -> 0..MaxHouseholds]
    /\ \A i \in DOMAIN value_hs : value_hs[i] = 0 => value_hh[i] = 0
    /\ SeqSum(value_hs) > 0
    /\ SeqSum(value_hh) <= SeqSum(value_hs)
    /\ value_hhp = <<>>
    /\ adjustment = 0
    /\ given = [value_hh |-> value_hh]

\* Lines 174-183: the per-record adjustment and its total
AdjustHsHh ==
    /\ fn = "_create_hs_hh"
    /\ pc = "integerized"
    /\ LET adj == [i \in DOMAIN value_hh |->
                      _calculate_hh_adjustment(value_hh[i], value_hs[i])]
       IN  /\ value_hh' = [i \in DOMAIN value_hh |-> value_hh[i] + adj[i]]
           /\ adjustment' = SeqSum(adj)
    /\ pc' = "reallocate"
    /\ UNCHANGED <<fn, exc, vars1d, vars2d, varsnd, varsx, varsipf, solver_rank,
                   value_hs, value_hhp>>

\* Lines 187-214: one pass of "while adjustment != 0"
ReallocateHsHh ==
    /\ fn = "_create_hs_hh"
    /\ pc = "reallocate"
    /\ adjustment # 0
    /\ LET cond == IF adjustment > 0
                   THEN {i \in DOMAIN value_hh : value_hh[i] > 0}
                   ELSE {i \in DOMAIN value_hh : value_hh[i] < value_hs[i]}
           factor == IF adjustment > 0 THEN -1 ELSE 1
           records == IF Len(value_hh) < Abs(adjustment)
                      THEN Len(value_hh) ELSE Abs(adjustment)
       IN  IF records > 0
           THEN /\ \E indices \in SortedHead(cond, value_hh, records) :
                      value_hh' = [i \in DOMAIN value_hh |->
                                      IF i \in indices THEN value_hh[i] + factor
                                      ELSE value_hh[i]]
                /\ adjustment' = adjustment + records * factor
                /\ UNCHANGED <<pc, exc>>
           ELSE /\ pc' = "raised"
                /\ exc' = "ValueError"
                /\ UNCHANGED <<value_hh, adjustment>>
    /\ UNCHANGED <<fn, vars1d, vars2d, varsnd, varsx, varsipf, solver_rank,
                   value_hs, value_hhp>>

\* Lines 187, 217-219: the loop exits and the city result is appended
ReturnHsHh ==
    /\ fn = "_create_hs_hh"
    /\ pc = "reallocate"
    /\ adjustment = 0
    /\ pc' = "returned"
    /\ UNCHANGED <<fn, exc, vars1d, vars2d, varsnd, varsx, varsipf, solver_rank, varscity>>

NextHsHh == AdjustHsHh \/ ReallocateHsHh \/ ReturnHsHh

SpecHsHh == InitHsHh /\ [][NextHsHh]_vars

\* C29: when the reallocation loop of a city has exited, the households of
\* the city sum to the total that saferound produced, and every record holds
\* between zero households and its housing stock.
C29_CityTotalPreserved ==
    (fn = "_create_hs_hh" /\ pc = "returned") =>
        /\ SeqSum(value_hh) = SeqSum(given.value_hh)
        /\ \A i \in DOMAIN value_hh : 0 <= value_hh[i] /\ value_hh[i] <= value_hs[i]

\* The records stay between zero and their stock once the adjustment is applied
HouseholdsWithinStock ==
    (fn = "_create_hs_hh" /\ pc \in {"reallocate", "returned"}) =>
        \A i \in DOMAIN value_hh : 0 <= value_hh[i] /\ value_hh[i] <= value_hs[i]

\* "Cannot balance households." is never raised
NeverRaisedHsHh == fn = "_create_hs_hh" => pc # "raised"

(***************************************************************************)
(* Household population of a city: _create_hhp_outputs                     *)
(* (src/python/pop_type.py)                                                *)
(***************************************************************************)
MaxHouseholdsHhp == 2   \* largest household count of a record of the input
MaxPopulation == 3      \* largest household population of a record after saferound

\* pop_type.py lines 247-268
_calculate_hhp_adjustment(hhp, hh) ==
    IF (hhp < 0) \/ (hhp > 0 /\ hh = 0) THEN -1 * hhp
    ELSE IF hh > 0 /\ (hhp < hh) THEN hh - hhp
    ELSE 0

\* The state after line 302 for one city: the households are the validated
\* (non-negative) input, not all zero.  The scaled household population of a
\* record is its households times the tract household size times the
\* multiplier, so it is zero without households and non-negative otherwise,
\* and iteround.saferound rounds each value down or up.
InitHhp ==
    /\ fn = "_create_hhp_outputs"
    /\ pc = "integerized"
    /\ exc = ""
    /\ Idle1D
    /\ Idle2D
    /\ IdleND
    /\ IdleIPF
    /\ data_type = "" /\ seed = 0 /\ gen_state = 0
    /\ status = "" /\ solver_calls = <<>> /\ solver_rank = 0
    /\ value_hs = <<>>
    /\ value_hh \in Vectors(MaxRecords, 0..MaxHouseholdsHhp)
    /\ SeqSum(value_hh) > 0
    /\ value_hhp \in [DOMAIN value_hh -> 0..MaxPopulation]
    /\ \A i \in DOMAIN value_hh : value_hh[i] = 0 => value_hhp[i] = 0
    /\ adjustment = 0
    /\ given = [value_hhp |-> value_hhp]

\* Lines 306-312: the per-record adjustment and its total
AdjustHhp ==
    /\ fn = "_create_hhp_outputs"
    /\ pc = "integerized"
    /\ LET adj == [i \in DOMAIN value_hhp |->
                      _calculate_hhp_adjustment(value_hhp[i], value_hh[i])]
       IN  /\ value_hhp' = [i \in DOMAIN value_hhp |-> value_hhp[i] + adj[i]]
           /\ adjustment' = SeqSum(adj)
    /\ pc' = "reallocate"
    /\ UNCHANGED <<fn, exc, vars1d, vars2d, varsnd, varsx, varsipf, solver_rank,
                   value_hs, value_hh>>

Mut_ReallocateHhp ==
    /\ fn = "_create_hhp_outputs"
    /\ pc = "reallocate"
    /\ adjustment # 0
    /\ LET cond == IF adjustment > 0
                   THEN {i \in DOMAIN value_hhp : value_hhp[i] > 0}
                   ELSE {i \in DOMAIN value_hhp : value_hh[i] > 0}
           factor == IF adjustment > 0 THEN -1 ELSE 1
           records == IF Len(value_hhp) < Abs(adjustment)
                      THEN Len(value_hhp) ELSE Abs(adjustment)
       IN  /\ \E indices \in SortedHead(cond, value_hh, records) :
                 value_hhp' = [i \in DOMAIN value_hhp |->
                                  IF i \in indices THEN value_hhp[i] + factor
                                  ELSE value_hhp[i]]
           /\ adjustment' = adjustment + records * factor
           /\ UNCHANGED <<pc, exc>>
    /\ UNCHANGED <<fn, vars1d, vars2d, varsnd, varsx, varsipf, solver_rank,
                   value_hs, value_hh>>

\* Lines 316-348: one pass of "while adjustment != 0"
ReallocateHhp ==
    /\ fn = "_create_hhp_outputs"
    /\ pc = "reallocate"
    /\ adjustment # 0
    /\ LET cond == IF adjustment > 0
                   THEN {i \in DOMAIN value_hhp : value_hhp[i] > value_hh[i]}
                   ELSE {i \in DOMAIN value_hhp : value_hh[i] > 0}
           factor == IF adjustment > 0 THEN -1 ELSE 1
           records == IF Len(value_hhp) < Abs(adjustment)
                      THEN Len(value_hhp) ELSE Abs(adjustment)
       IN  IF records > 0
           THEN /\ \E indices \in SortedHead(cond, value_hh, records) :
                      value_hhp' = [i \in DOMAIN value_hhp |->
                                       IF i \in indices THEN value_hhp[i] + factor
                                       ELSE value_hhp[i]]
                /\ adjustment' = adjustment + records * factor
                /\ UNCHANGED <<pc, exc>>
           ELSE /\ pc' = "raised"
                /\ exc' = "ValueError"
                /\ UNCHANGED <<value_hhp, adjustment>>
    /\ UNCHANGED <<fn, vars1d, vars2d, varsnd, varsx, varsipf, solver_rank,
                   value_hs, value_hh>>

\* Lines 316, 350: the loop exits and the city result is appended
ReturnHhp ==
    /\ fn = "_create_hhp_outputs"
    /\ pc = "reallocate"
    /\ adjustment = 0
    /\ pc' = "returned"
    /\ UNCHANGED <<fn, exc, vars1d, vars2d, varsnd, varsx, varsipf, solver_rank, varscity>>

NextHhp == AdjustHhp \/ ReallocateHhp \/ ReturnHhp

SpecHhp == InitHhp /\ [][NextHhp]_vars

\* Household population agrees with the households of the record
Consistent(hhp, hh) ==
    /\ hhp >= 0
    /\ hh = 0 => hhp = 0
    /\ hh > 0 => hhp >= hh

\* C30: once the per-record adjustment has been applied, after every pass of
\* the reallocation loop and when the loop has exited, every record has a
\* non-negative household population, none where it has no households, and at
\* least one person per household where it has households.
C30_PopulationConsistent ==
    (fn = "_create_hhp_outputs" /\ pc \in {"reallocate", "returned"}) =>
        \A i \in DOMAIN value_hhp : Consistent(value_hhp[i], value_hh[i])

\* the loop has exited after taking population from a record that held more
\* than its households, in a city where the adjustment had raised a record
\* to its households and another record has no households
C30_Witness ==
    /\ fn = "_create_hhp_outputs"
    /\ pc = "returned"
    /\ \E i \in DOMAIN value_hhp : value_hhp[i] < given.value_hhp[i]
    /\ \E i \in DOMAIN value_hhp : given.value_hhp[i] < value_hh[i]
    /\ \E i \in DOMAIN value_hhp : value_hh[i] = 0

====
